---- MODULE Spec2Model ----
(***************************************************************************)
(* State-machine model of the t_race pipeline commands: the Check stage    *)
(* (commands/check.py), the Trace stage (commands/trace.py) and the        *)
(* Analyze stage (commands/analyze.py), each a bounded worker pool driven  *)
(* through imap_unordered and a single collecting loop.                    *)
(***************************************************************************)
EXTENDS Integers, Sequences, FiniteSets, TLC

\* ------------------------------------------------------------------ bounds
MaxPairs == 2      \* longest input list handed to a stage
MaxWorkers == 2    \* largest --max-workers

\* ------------------------------------------------------------- basic values
None == "None"     \* Python None, JSON null

\* Transaction hashes are strings; a string is a sequence of characters.
TxA == <<"0", "x", "A">>
TxB == <<"0", "x", "B">>
Tx == {TxA, TxB}

\* Ordered candidate pairs (tx_a, tx_b).
Pairs == {<<TxA, TxB>>, <<TxB, TxA>>}

\* Every ordered pair of hashes.
AllPairs == Tx \X Tx

RECURSIVE SeqsUpTo(_, _)
SeqsUpTo(S, n) ==
  IF n = 0 THEN {<<>>}
  ELSE LET shorter == SeqsUpTo(S, n - 1)
       IN  shorter \cup {Append(s, x) : s \in {t \in shorter : Len(t) = n - 1}, x \in S}

Range(s) == {s[i] : i \in 1..Len(s)}

\* Number of positions of sequence s whose element satisfies Test.
Count(s, Test(_)) == Cardinality({i \in 1..Len(s) : Test(s[i])})

\* ------------------------------------------------------------------ strings
\* f"{tx_a}_{tx_b}"
MakeId(tx_a, tx_b) == tx_a \o <<"_">> \o tx_b

AllIds == {MakeId(p[1], p[2]) : p \in AllPairs}

\* str.split(sep): the list of maximal pieces of s between occurrences of sep.
RECURSIVE SplitFrom(_, _, _, _)
SplitFrom(s, sep, i, cur) ==
  IF i > Len(s) THEN <<cur>>
  ELSE IF s[i] = sep THEN <<cur>> \o SplitFrom(s, sep, i + 1, <<>>)
  ELSE SplitFrom(s, sep, i + 1, Append(cur, s[i]))

Split(s, sep) == SplitFrom(s, sep, 1, <<>>)

\* Exception messages are strings too, kept at word granularity: one element
\* per word, in the letter case the raiser wrote it.
LowerWord(w) ==
  CASE w = "Insufficient" -> "insufficient"
    [] w = "INSUFFICIENT" -> "insufficient"
    [] w = "Funds" -> "funds"
    [] w = "FUNDS" -> "funds"
    [] OTHER -> w

\* str.lower()
Lower(msg) == [i \in 1..Len(msg) |-> LowerWord(msg[i])]

\* needle in hay
Contains(hay, needle) ==
  \E k \in 0..(Len(hay) - Len(needle)) :
    \A j \in 1..Len(needle) : hay[k + j] = needle[j]

InsufficientFunds == <<"insufficient", "funds">>

\* --------------------------------------------------------------- outcomes
\* What a Python call does: return a value, or raise an exception.
Return(v) == [raised |-> FALSE, payload |-> v]
Raise(e) == [raised |-> TRUE, payload |-> e]

\* An object reference that may be None: <<>> is None, <<v>> refers to v.
Null == <<>>
Some(v) == <<v>>
\* bool(x) of an object reference
Truthy(ref) == ref # Null

\* Exception classes that reach the handlers; all derive from Exception.
ExcClasses == {"ReplayDivergedException", "InsufficientEtherReplayException", "RuntimeError"}

\* isinstance(e, handler)
IsInstance(cls, handler) == cls = handler \/ handler = "Exception"

Msgs == { <<"timeout">>,
          <<"Insufficient", "funds", "for", "gas">>,
          <<"err", "INSUFFICIENT", "FUNDS">> }

Exceptions == [cls : ExcClasses, msg : Msgs]

\* The StopWatch reading of one measured region: which region it measured.
elapsed_ms(region) == <<"ms", region>>

\* ------------------------------------------------- the replay collaborator
\* What the Session does for one pair: checker.check returns a TODCheckResult
\* (with its two comparisons) or raises; differences() returns or raises.
NoExc == [cls |-> "none", msg |-> <<>>]

CheckBehaviours ==
  {[at |-> "none", exc |-> NoExc, b |-> b, o |-> o] : b \in BOOLEAN, o \in BOOLEAN}
  \cup {[at |-> "check", exc |-> e, b |-> FALSE, o |-> FALSE] : e \in Exceptions}
  \cup {[at |-> "differences", exc |-> e, b |-> TRUE, o |-> TRUE] :
          e \in {x \in Exceptions : x.cls = "RuntimeError"}}

\* The behaviours the stage runs are explored with: both verdicts under either
\* method, every exception class, both kinds of message of a plain exception,
\* and a failure after checker.check has returned.
StageCheckBehaviours ==
  {x \in CheckBehaviours :
     \/ x.at = "none" /\ x.b # x.o
     \/ x.at = "check" /\ x.exc.msg = <<"timeout">>
     \/ x.at = "check" /\ x.exc.cls = "RuntimeError"
     \/ x.at = "differences" /\ x.exc.msg = <<"timeout">>}

\* checker.check(tx_a, tx_b)
checker_check(beh, tx_a, tx_b) ==
  IF beh.at = "check" THEN Raise(beh.exc)
  ELSE Return([tx_a |-> tx_a, tx_b |-> tx_b,
               tx_b_comparison |-> beh.b, overall_comparison |-> beh.o])

\* comparison.differences(), as the truth value of the list it returns
differences(beh, comparison) ==
  IF beh.at = "differences" THEN Raise(beh.exc) ELSE Return(comparison)

\* TODCheckResult.as_dict()
as_dict(res) == [as_dict |-> res]

TODMethods == {"approximation", "overall"}

\* The except clauses with `except Exception` written first.
classify_exception_generic_first(e) ==
  IF IsInstance(e.cls, "Exception")
  THEN IF Contains(Lower(e.msg), InsufficientFunds)
       THEN "insufficient ether replay error"
       ELSE "error"
  ELSE IF IsInstance(e.cls, "ReplayDivergedException") THEN "replay diverged"
  ELSE "insufficient ether replay detected"

\* The except clauses with the message tested as written, without lower().
classify_exception_case_sensitive(e) ==
  IF IsInstance(e.cls, "ReplayDivergedException") THEN "replay diverged"
  ELSE IF IsInstance(e.cls, "InsufficientEtherReplayException")
       THEN "insufficient ether replay detected"
  ELSE IF Contains(e.msg, InsufficientFunds)
       THEN "insufficient ether replay error"
  ELSE "error"

\* The except clauses of check_candidate, first match wins.
classify_exception(e) ==
  IF IsInstance(e.cls, "ReplayDivergedException") THEN "replay diverged"
  ELSE IF IsInstance(e.cls, "InsufficientEtherReplayException")
       THEN "insufficient ether replay detected"
  ELSE IF Contains(Lower(e.msg), InsufficientFunds)
       THEN "insufficient ether replay error"
  ELSE "error"

\* Either method looking at the combined comparison.
select_comparison_always_overall(tod_method, res) == res.overall_comparison

\* The comparison the try body asks for differences.
select_comparison(tod_method, res) ==
  IF tod_method = "approximation" THEN res.tx_b_comparison ELSE res.overall_comparison

\* check_candidate without its last clause, `except Exception`: an exception
\* that is neither of the two replay exceptions leaves the work function.
check_candidate_without_catch_all(args, beh, session) ==
  LET tx_a == args.transaction_hashes[1]
      tx_b == args.transaction_hashes[2]
      call == checker_check(beh, tx_a, tx_b)
      res  == IF call.raised THEN Null ELSE Some(call.payload)
      body == IF call.raised THEN call
              ELSE LET d == differences(beh, select_comparison(args.tod_method, call.payload))
                   IN  IF d.raised THEN d
                       ELSE Return(IF d.payload THEN "TOD" ELSE "not TOD")
  IN  IF body.raised /\ body.payload.cls = "RuntimeError" THEN body
      ELSE Return([id |-> MakeId(tx_a, tx_b),
                   result |-> IF body.raised THEN classify_exception(body.payload)
                              ELSE body.payload,
                   details |-> res,
                   elapsed_ms |-> elapsed_ms(<<"check_candidate", tx_a, tx_b>>)])

\* check_candidate(args): args = [transaction_hashes, tod_method]; beh is what
\* the Session does for this pair; session is the module-level checker.
check_candidate(args, beh, session) ==
  IF session = None THEN Raise([cls |-> "AssertionError", msg |-> <<>>])
  ELSE
  LET tx_a == args.transaction_hashes[1]
      tx_b == args.transaction_hashes[2]
      call == checker_check(beh, tx_a, tx_b)
      res  == IF call.raised THEN Null ELSE Some(call.payload)
      body == IF call.raised THEN call
              ELSE LET d == differences(beh, select_comparison(args.tod_method, call.payload))
                   IN  IF d.raised THEN d
                       ELSE Return(IF d.payload THEN "TOD" ELSE "not TOD")
      result == IF body.raised THEN classify_exception(body.payload) ELSE body.payload
  IN  Return([id |-> MakeId(tx_a, tx_b),
              result |-> result,
              details |-> res,
              elapsed_ms |-> elapsed_ms(<<"check_candidate", tx_a, tx_b>>)])

\* -------------------------------------------------------------- the state
VARIABLES
  cmd,          \* the command this process runs
  pc,           \* position of the main (collecting) thread
  raised,       \* the exception that left the command, when pc = "raised"
  fs,           \* the files under base_dir: path -> sequence of lines
  tod_method,   \* --tod-method
  max_workers,  \* --max-workers
  env,          \* what the external collaborator does for each item
  checker,      \* check.py's module-level checker
  inputs,       \* process_inputs, the list handed to the pool
  next,         \* index of the next task a worker will take
  running,      \* indices of the tasks workers are executing
  outq,         \* finished tasks in completion order, not yet collected
  received,     \* what the collecting loop has received so far
  ledger,       \* rows of the timing ledger
  blockOf,      \* the block that owns each transaction, as the provider tells
  requests,     \* how often each item of data was requested from the provider
  second,       \* TRUE in the re-invocation of the command
  firstRows,    \* the rows the first invocation left in its results CSV
  scopes,       \* the timing scopes entered and not yet left, innermost last
  history       \* what the process has done so far, in order

vars == <<cmd, pc, raised, fs, tod_method, max_workers, env, checker,
          inputs, next, running, outq, received, ledger, blockOf, requests,
          second, firstRows,
                 scopes, history>>

poolVars == <<next, running, outq, received>>

\* ------------------------------------------------------------------- files
CandidatesCsv == <<"tod_candidates.csv">>
CheckCsv == <<"tod_check.csv">>
CheckJsonl == <<"tod_check_details.jsonl">>

CandidatesHeader == [tx_a |-> <<"tx_a">>, tx_b |-> <<"tx_b">>]
CheckHeader == [tx_a |-> <<"tx_a">>, tx_b |-> <<"tx_b">>, result |-> "result"]

Exists(path) == path \in DOMAIN fs

\* open(path, "a"): what the file held before stays, lines come after it.
WriteFile_keeping_contents(f, path, lines) ==
  [q \in DOMAIN f \cup {path} |->
     IF q = path THEN (IF path \in DOMAIN f THEN f[path] ELSE <<>>) \o lines ELSE f[q]]

\* open(path, "w") ... close(): the file holds exactly lines
WriteFile(f, path, lines) ==
  [q \in DOMAIN f \cup {path} |-> IF q = path THEN lines ELSE f[q]]

\* a write to a file opened earlier
AppendLine(f, path, line) == [f EXCEPT ![path] = Append(@, line)]

\* the (tx_a, tx_b) of a row or line
PairOf(line) == <<line.tx_a, line.tx_b>>

\* csv.DictReader(f): the rows after the header line
DictReader(lines) == IF lines = <<>> THEN <<>> ELSE Tail(lines)

\* The candidates checkpoint Mine wrote for a list of pairs.
CandidatesFile(pairs) ==
  <<CandidatesHeader>> \o [i \in 1..Len(pairs) |-> [tx_a |-> pairs[i][1], tx_b |-> pairs[i][2]]]

\* load_tod_candidates(csv_path), the file being there
load_tod_candidates(lines) ==
  LET rows == DictReader(lines)
  IN  [i \in 1..Len(rows) |-> <<rows[i].tx_a, rows[i].tx_b>>]

\* ----------------------------------------------------------- timing ledger
\* TimeTracker.save_time_ms(task_path, elapsed_ms)
save_time_ms(rows, task_path, ms) ==
  Append(rows, [task_path |-> task_path, elapsed_ms |-> ms])

\* leaving a `with time_tracker.task(task_path)` scope
task_exit(rows, task_path) == save_time_ms(rows, task_path, elapsed_ms(task_path))

\* ------------------------------------------------------------ the pool
Session == "TodChecker"

FileNotFoundError == [cls |-> "FileNotFoundError", msg |-> <<>>]
ProviderError == [cls |-> "ConnectionError", msg |-> <<>>]
ValueError == [cls |-> "ValueError", msg |-> <<>>]

\* A task is started whenever one is left, however many are running.
TakeTask_ignoring_max_workers ==
  /\ pc = "collect"
  /\ next <= Len(inputs)
  /\ running' = running \cup {next}
  /\ next' = next + 1
  /\ UNCHANGED <<cmd, pc, raised, fs, tod_method, max_workers, env, checker,
                 inputs, outq, received, ledger, blockOf, requests, second, firstRows,
                 scopes, history>>

\* A worker of the pool takes the next task (chunksize = 1), at most
\* max_workers at a time.
TakeTask ==
  /\ pc = "collect"
  /\ next <= Len(inputs)
  /\ Cardinality(running) < max_workers
  /\ running' = running \cup {next}
  /\ next' = next + 1
  /\ UNCHANGED <<cmd, pc, raised, fs, tod_method, max_workers, env, checker,
                 inputs, outq, received, ledger, blockOf, requests, second, firstRows,
                 scopes, history>>

\* The exception of a task that raised is re-raised in the collecting loop
\* by next(); it leaves the `with Pool` block, which terminates the pool.
PoolRaises(e) ==
  /\ pc' = "raised"
  /\ raised' = e
  /\ running' = {}
  /\ outq' = <<>>
  /\ UNCHANGED <<next, received>>

\* f"{args.transaction_hashes[0]}_{args.transaction_hashes[1]}"
InputId(args) == MakeId(args.transaction_hashes[1], args.transaction_hashes[2])

\* ------------------------------------------------------------ Check stage
Block1 == <<"block", "1">>
Block2 == <<"block", "2">>
Blocks == {Block1, Block2}

\* flatten(nested_list)
RECURSIVE flatten(_)
flatten(nested) ==
  IF nested = <<>> THEN <<>> ELSE Head(nested) \o flatten(Tail(nested))

\* Only the first transaction of the list is prefetched.
prefetch_set_first_only(items) == IF items = <<>> THEN {} ELSE {Head(items)}

\* the collection a prefetch loop iterates over, for the list it is given
prefetch_set(items) == Range(items)

NoRequests == [k \in Tx \cup Blocks |-> 0]

\* one request to the provider for each key of keys
Request(req, keys) == [k \in DOMAIN req |-> IF k \in keys THEN req[k] + 1 ELSE req[k]]

transaction_pairs == load_tod_candidates(fs[CandidatesCsv])

\* Both result files are opened for writing before the candidates checkpoint
\* is read.
CheckLoad_opening_results_first ==
  /\ cmd = "check" /\ pc = "start"
  /\ checker' = Session
  /\ fs' = WriteFile(WriteFile(fs, CheckCsv, <<CheckHeader>>), CheckJsonl, <<>>)
  /\ IF Exists(CandidatesCsv)
     THEN /\ pc' = "download"
          /\ UNCHANGED raised
     ELSE /\ pc' = "raised"
          /\ raised' = FileNotFoundError
  /\ UNCHANGED <<cmd, tod_method, max_workers, env, inputs, poolVars,
                 ledger, blockOf, requests, second, firstRows,
                 scopes, history>>

\* check(), lines 142-144: bind the session, read the candidates checkpoint.
CheckLoad ==
  /\ cmd = "check" /\ pc = "start"
  /\ checker' = Session
  /\ IF Exists(CandidatesCsv)
     THEN /\ pc' = "download"
          /\ UNCHANGED raised
     ELSE /\ pc' = "raised"
          /\ raised' = FileNotFoundError
  /\ UNCHANGED <<cmd, fs, tod_method, max_workers, env, inputs, poolVars,
                 ledger, blockOf, requests, second, firstRows,
                 scopes, history>>

\* check(), lines 146-149: download every referenced transaction; the loop
\* stops at the first request the provider fails.
CheckDownloadTransactions ==
  /\ cmd = "check" /\ pc = "download"
  /\ LET txs == prefetch_set(flatten(transaction_pairs))
     IN  \/ /\ requests' = Request(requests, txs)
            /\ pc' = "fetch"
            /\ UNCHANGED raised
         \/ \E asked \in SUBSET txs :
              /\ asked # {}
              /\ requests' = Request(requests, asked)
              /\ pc' = "raised"
              /\ raised' = ProviderError
  /\ ledger' = task_exit(ledger, <<"check", "download transactions">>)
  /\ UNCHANGED <<cmd, fs, tod_method, max_workers, env, checker, inputs,
                 poolVars, blockOf, second, firstRows,
                 scopes, history>>

\* The state changes of the owning block are fetched for each transaction
\* instead of for each block.
CheckFetchStateChanges_per_transaction ==
  /\ cmd = "check" /\ pc = "fetch"
  /\ LET txs == prefetch_set(flatten(transaction_pairs))
     IN  requests' = [k \in DOMAIN requests |->
                        requests[k] + Cardinality({tx \in txs : blockOf[tx] = k})]
  /\ pc' = "open"
  /\ ledger' = task_exit(ledger, <<"check", "fetch state changes">>)
  /\ UNCHANGED <<cmd, raised, fs, tod_method, max_workers, env, checker, inputs,
                 poolVars, blockOf, second, firstRows,
                 scopes, history>>

\* check(), lines 150-152: fetch the state changes of every owning block.
CheckFetchStateChanges ==
  /\ cmd = "check" /\ pc = "fetch"
  /\ LET txs == prefetch_set(flatten(transaction_pairs))
         blocks == {blockOf[tx] : tx \in txs}
     IN  \/ /\ requests' = Request(requests, blocks)
            /\ pc' = "open"
            /\ UNCHANGED raised
         \/ \E asked \in SUBSET blocks :
              /\ asked # {}
              /\ requests' = Request(requests, asked)
              /\ pc' = "raised"
              /\ raised' = ProviderError
  /\ ledger' = task_exit(ledger, <<"check", "fetch state changes">>)
  /\ UNCHANGED <<cmd, fs, tod_method, max_workers, env, checker, inputs,
                 poolVars, blockOf, second, firstRows,
                 scopes, history>>

\* CheckArgs((tx_a, tx_b), tod_method) for tx_a, tx_b in transaction_pairs
check_process_inputs(pairs, method) ==
  [i \in 1..Len(pairs) |-> [transaction_hashes |-> pairs[i], tod_method |-> method]]

\* check(), lines 154-164: open both result files for writing, write the CSV
\* header, create the pool and hand it the inputs.
CheckOpen ==
  /\ cmd = "check" /\ pc = "open"
  /\ fs' = WriteFile(WriteFile(fs, CheckCsv, <<CheckHeader>>), CheckJsonl, <<>>)
  /\ inputs' = check_process_inputs(transaction_pairs, tod_method)
  /\ next' = 1
  /\ running' = {}
  /\ outq' = <<>>
  /\ received' = <<>>
  /\ pc' = "collect"
  /\ UNCHANGED <<cmd, raised, tod_method, max_workers, env, checker, ledger,
                 blockOf, requests, second, firstRows,
                 scopes, history>>

\* The pool thread appends the row of its result to the results CSV itself.
CheckWork_writing_row(i) ==
  /\ cmd = "check" /\ pc = "collect"
  /\ i \in running
  /\ running' = running \ {i}
  /\ LET out == check_candidate(inputs[i], env[inputs[i].transaction_hashes], checker)
     IN  /\ outq' = Append(outq, out)
         /\ fs' = IF out.raised THEN fs
                 ELSE AppendLine(fs, CheckCsv,
                                 [tx_a |-> inputs[i].transaction_hashes[1],
                                  tx_b |-> inputs[i].transaction_hashes[2],
                                  result |-> out.payload.result])
  /\ UNCHANGED <<cmd, pc, raised, tod_method, max_workers, env, checker,
                 inputs, next, received, ledger, blockOf, requests, second, firstRows,
                 scopes, history>>

\* A pool thread runs check_candidate on the task it took.
CheckWork(i) ==
  /\ cmd = "check" /\ pc = "collect"
  /\ i \in running
  /\ running' = running \ {i}
  /\ outq' = Append(outq, check_candidate(inputs[i], env[inputs[i].transaction_hashes], checker))
  /\ UNCHANGED <<cmd, pc, raised, fs, tod_method, max_workers, env, checker,
                 inputs, next, received, ledger, blockOf, requests, second, firstRows,
                 scopes, history>>

\* The row of one result, its pair taken from the input at the position of
\* arrival instead of from the id of the result.
check_row_by_position(result) ==
  LET pair == load_tod_candidates(fs[CandidatesCsv])[Len(received) + 1]
  IN  [tx_a |-> pair[1], tx_b |-> pair[2], result |-> result.result]

\* The row of one result with the two hashes of its id in reverse order.
check_row_reversed(result) ==
  LET parts == Split(result.id, "_")
  IN  [tx_a |-> parts[2], tx_b |-> parts[1], result |-> result.result]

\* check(), lines 173-180: the row of one result
check_row(result) ==
  LET parts == Split(result.id, "_")
  IN  [tx_a |-> parts[1], tx_b |-> parts[2], result |-> result.result]

\* The detail line of one result, failure filled in when there are no details.
check_details_failure_without_details(result) ==
  LET parts == Split(result.id, "_")
  IN  [tx_a |-> parts[1],
       tx_b |-> parts[2],
       details |-> IF Truthy(result.details) THEN Some(as_dict(result.details[1])) ELSE Null,
       failure |-> IF ~Truthy(result.details) THEN result.result ELSE None]

\* check(), lines 181-191: the detail line of one result
check_details(result) ==
  LET parts == Split(result.id, "_")
  IN  [tx_a |-> parts[1],
       tx_b |-> parts[2],
       details |-> IF Truthy(result.details) THEN Some(as_dict(result.details[1])) ELSE Null,
       failure |-> IF result.result \notin {"TOD", "not TOD"} THEN result.result ELSE None]

\* Row and line written for the results that carry details only.
check_write_with_details_only(f, result) ==
  IF Truthy(result.details)
  THEN AppendLine(AppendLine(f, CheckCsv, check_row(result)), CheckJsonl, check_details(result))
  ELSE f

\* check(), lines 174-191: writer.writerow(...) and details_file.write(...)
check_write(f, result) ==
  AppendLine(AppendLine(f, CheckCsv, check_row(result)), CheckJsonl, check_details(result))

\* check(), lines 165-191: one iteration of the collecting loop.
CheckCollect ==
  /\ cmd = "check" /\ pc = "collect"
  /\ outq # <<>>
  /\ LET out == Head(outq)
     IN  IF out.raised
         THEN /\ PoolRaises(out.payload)
              /\ ledger' = task_exit(ledger, <<"check", "check">>)
              /\ UNCHANGED fs
         ELSE LET result == out.payload
                  timed == save_time_ms(ledger, <<"check", "check", result.id>>, result.elapsed_ms)
              IN  IF Len(Split(result.id, "_")) # 2
                  THEN /\ PoolRaises(ValueError)
                       /\ ledger' = task_exit(timed, <<"check", "check">>)
                       /\ UNCHANGED fs
                  ELSE /\ ledger' = timed
                       /\ fs' = check_write(fs, result)
                       /\ received' = Append(received, result)
                       /\ outq' = Tail(outq)
                       /\ UNCHANGED <<pc, raised, next, running>>
  /\ UNCHANGED <<cmd, tod_method, max_workers, env, checker, inputs, blockOf,
                 requests, second, firstRows,
                 scopes, history>>

\* The loop waits until it has received a verdict for every input, so a
\* failed item keeps it waiting.
CheckFinish_waiting_for_verdicts ==
  /\ cmd = "check" /\ pc = "collect"
  /\ Cardinality({k \in 1..Len(received) : received[k].result \in {"TOD", "not TOD"}})
       = Len(inputs)
  /\ pc' = "done"
  /\ ledger' = task_exit(ledger, <<"check", "check">>)
  /\ UNCHANGED <<cmd, raised, fs, tod_method, max_workers, env, checker, inputs,
                 poolVars, blockOf, requests, second, firstRows,
                 scopes, history>>

\* check(), lines 154-169: the loop has received total results; the pool and
\* both files are closed and the check/check scope is left.
CheckFinish ==
  /\ cmd = "check" /\ pc = "collect"
  /\ Len(received) = Len(inputs)
  /\ pc' = "done"
  /\ ledger' = task_exit(ledger, <<"check", "check">>)
  /\ UNCHANGED <<cmd, raised, fs, tod_method, max_workers, env, checker, inputs,
                 poolVars, blockOf, requests, second, firstRows,
                 scopes, history>>

\* The stage is invoked once more on the same base_dir: a new process, the
\* files of the first invocation still on disk.
CheckReinvoke ==
  /\ cmd = "check" /\ pc = "done" /\ ~second
  /\ second' = TRUE
  /\ firstRows' = DictReader(fs[CheckCsv])
  /\ pc' = "start"
  /\ checker' = None
  /\ ledger' = <<>>
  /\ inputs' = <<>>
  /\ next' = 1
  /\ running' = {}
  /\ outq' = <<>>
  /\ received' = <<>>
  /\ requests' = NoRequests
  /\ UNCHANGED <<cmd, raised, fs, tod_method, max_workers, env, blockOf,
                 scopes, history>>

BlockMaps == { [t \in Tx |-> Block1],
               [t \in Tx |-> IF t = TxA THEN Block1 ELSE Block2] }

CandidateLists == SeqsUpTo(Pairs, MaxPairs)

InitCommon ==
  /\ pc = "start"
  /\ raised = NoExc
  /\ max_workers \in 1..MaxWorkers
  /\ checker = None
  /\ inputs = <<>>
  /\ next = 1
  /\ running = {}
  /\ outq = <<>>
  /\ received = <<>>
  /\ ledger = <<>>
  /\ requests = NoRequests
  /\ second = FALSE
  /\ firstRows = <<>>
  /\ scopes = <<>>
  /\ history = <<>>

InitCheck ==
  /\ cmd = "check"
  /\ InitCommon
  /\ tod_method \in TODMethods
  /\ blockOf \in BlockMaps
  /\ \/ /\ fs = <<>>
        /\ env = <<>>
     \/ \E pairs \in CandidateLists :
          /\ fs = WriteFile(<<>>, CandidatesCsv, CandidatesFile(pairs))
          /\ env \in [Range(pairs) -> StageCheckBehaviours]

NextCheck ==
  \/ CheckLoad
  \/ CheckDownloadTransactions
  \/ CheckFetchStateChanges
  \/ CheckOpen
  \/ TakeTask
  \/ \E i \in running : CheckWork(i)
  \/ CheckCollect
  \/ CheckFinish
  \/ CheckReinvoke

\* The Check stage, invoked once or twice on one candidates checkpoint.
Spec == InitCheck /\ [][NextCheck]_vars


\* ------------------------------------------------------- Properties stage
PropertiesCsv == <<"tod_properties.csv">>
PropertiesJsonl == <<"tod_properties_details.jsonl">>

PropertiesHeader ==
  [tx_a |-> <<"tx_a">>, tx_b |-> <<"tx_b">>,
   attacker_gain_and_victim_loss |-> "attacker_gain_and_victim_loss",
   attacker_gain_and_victim_loss_approximation |-> "attacker_gain_and_victim_loss_approximation",
   tod_transfer |-> "tod_transfer", tod_amount |-> "tod_amount",
   tod_receiver |-> "tod_receiver", erc20_approval |-> "erc20_approval"]

\* Every row of the verdict checkpoint is taken, whatever its result.
load_tod_transactions_any_result(lines) ==
  LET rows == DictReader(lines)
  IN  [i \in 1..Len(rows) |-> <<rows[i].tx_a, rows[i].tx_b>>]

\* load_tod_transactions(csv_path), the file being there
load_tod_transactions(lines) ==
  LET IsTod(row) == row.result = "TOD"
      rows == SelectSeq(DictReader(lines), IsTod)
  IN  [i \in 1..Len(rows) |-> <<rows[i].tx_a, rows[i].tx_b>>]

\* The steps of the try body of check_candidate_properties, in order.
StepTrace == 1            \* js_trace_scenarios, process_traces, get_transaction
StepGainLossApprox == 2   \* check_gain_and_loss_properties, narrowed scope
StepGainLoss == 3         \* check_gain_and_loss_properties, both transactions
StepSecurifyA == 4        \* check_securify_properties of tx_a
StepSecurifyB == 5        \* check_securify_properties of tx_b
StepApproval == 6         \* check_erc20_approval_attack

\* What the collaborators do for one TOD pair: every step returns (failAt = 0)
\* or step failAt raises.
PropertiesBehaviours ==
  {[failAt |-> 0, exc |-> NoExc]}
  \cup {[failAt |-> k, exc |-> [cls |-> "RuntimeError", msg |-> <<"timeout">>]] :
          k \in StepTrace..StepApproval}

\* The reports the property checks return.
GainAndLossResult(flag) == [properties |-> [attacker_gain_and_victim_loss |-> flag]]
SecurifyCheckResult(t, a, r) ==
  [properties |-> [TOD_Transfer |-> t, TOD_Amount |-> a, TOD_Receiver |-> r]]
ERC20ApprovalCheckResult(flag) == [properties |-> [approve_after_transfer |-> flag]]

\* the value a step left in its variable: None when the step was not reached
\* or raised
StepValue(beh, step, value) ==
  IF beh.failAt = 0 \/ step < beh.failAt THEN Some(value) ELSE Null

\* check_candidate_properties(args): args = [transaction_hashes].
check_candidate_properties(args, beh, session) ==
  IF session = None THEN Raise([cls |-> "AssertionError", msg |-> <<>>])
  ELSE
  Return([transaction_hashes |-> args.transaction_hashes,
          error |-> IF beh.failAt = 0 THEN Null ELSE Some(beh.exc),
          gain_and_loss |-> StepValue(beh, StepGainLoss, GainAndLossResult(TRUE)),
          gain_and_loss_approximation |->
            StepValue(beh, StepGainLossApprox, GainAndLossResult(FALSE)),
          securify_tx_a |->
            StepValue(beh, StepSecurifyA, SecurifyCheckResult(TRUE, FALSE, FALSE)),
          securify_tx_b |->
            StepValue(beh, StepSecurifyB, SecurifyCheckResult(FALSE, FALSE, TRUE)),
          erc20_approval |-> StepValue(beh, StepApproval, ERC20ApprovalCheckResult(FALSE)),
          elapsed_ms |-> elapsed_ms(<<"check_candidate_properties",
                                      args.transaction_hashes[1],
                                      args.transaction_hashes[2]>>)])

\* traceback.format_exception(exc)
format_exception(e) == <<"Traceback (most recent call last):", e.cls, e.msg>>

\* check_properties(), lines 239-245
all_succeeded(result) ==
  /\ Truthy(result.gain_and_loss)
  /\ Truthy(result.gain_and_loss_approximation)
  /\ Truthy(result.securify_tx_a)
  /\ Truthy(result.securify_tx_b)
  /\ Truthy(result.erc20_approval)

\* check_properties(), lines 246-272: the row of a result whose five reports
\* are all there
properties_row(result) ==
  LET a == result.securify_tx_a[1].properties
      b == result.securify_tx_b[1].properties
  IN  [tx_a |-> result.transaction_hashes[1],
       tx_b |-> result.transaction_hashes[2],
       attacker_gain_and_victim_loss |->
         result.gain_and_loss[1].properties.attacker_gain_and_victim_loss,
       attacker_gain_and_victim_loss_approximation |->
         result.gain_and_loss_approximation[1].properties.attacker_gain_and_victim_loss,
       tod_transfer |-> a.TOD_Transfer \/ b.TOD_Transfer,
       tod_amount |-> a.TOD_Amount \/ b.TOD_Amount,
       tod_receiver |-> a.TOD_Receiver \/ b.TOD_Receiver,
       erc20_approval |-> result.erc20_approval[1].properties.approve_after_transfer]

\* The detail line of a result, its details filled in with the reports that
\* are there as soon as the first one is.
properties_details_with_partial_reports(result) ==
  [tx_a |-> result.transaction_hashes[1],
   tx_b |-> result.transaction_hashes[2],
   details |-> IF Truthy(result.gain_and_loss_approximation)
               THEN Some([tx_a |-> result.transaction_hashes[1],
                          tx_b |-> result.transaction_hashes[2],
                          gain_and_loss |-> result.gain_and_loss,
                          securify_tx_a |-> result.securify_tx_a,
                          securify_tx_b |-> result.securify_tx_b,
                          erc20_approval |-> result.erc20_approval])
               ELSE Null,
   failure |-> IF Truthy(result.error) THEN Some(format_exception(result.error[1])) ELSE Null]

\* check_properties(), lines 237-288: the detail line of a result
properties_details(result) ==
  [tx_a |-> result.transaction_hashes[1],
   tx_b |-> result.transaction_hashes[2],
   details |-> IF all_succeeded(result)
               THEN Some([tx_a |-> result.transaction_hashes[1],
                          tx_b |-> result.transaction_hashes[2],
                          gain_and_loss |-> result.gain_and_loss[1],
                          securify_tx_a |-> result.securify_tx_a[1],
                          securify_tx_b |-> result.securify_tx_b[1],
                          erc20_approval |-> result.erc20_approval[1]])
               ELSE Null,
   failure |-> IF Truthy(result.error) THEN Some(format_exception(result.error[1])) ELSE Null]

\* A result with a missing report leaves nothing in either file.
properties_write_skipping_failures(f, result) ==
  IF all_succeeded(result)
  THEN AppendLine(AppendLine(f, PropertiesCsv, properties_row(result)),
                  PropertiesJsonl, properties_details(result))
  ELSE f

\* check_properties(), lines 239-289: what one result adds to the two files
properties_write(f, result) ==
  AppendLine(IF all_succeeded(result)
             THEN AppendLine(f, PropertiesCsv, properties_row(result))
             ELSE f,
             PropertiesJsonl, properties_details(result))

\* CheckPropertiesArgs((tx_a, tx_b)) for tx_a, tx_b in tods
properties_process_inputs(tods) ==
  [i \in 1..Len(tods) |-> [transaction_hashes |-> tods[i]]]

\* check_properties(), lines 202-225: bind the session, read the TOD pairs of
\* the verdict checkpoint, create the pool, open both files for writing, write
\* the CSV header and hand the inputs to the pool.
PropertiesOpen ==
  /\ cmd = "properties" /\ pc = "start"
  /\ checker' = Session
  /\ IF Exists(CheckCsv)
     THEN /\ fs' = WriteFile(WriteFile(fs, PropertiesCsv, <<PropertiesHeader>>),
                             PropertiesJsonl, <<>>)
          /\ inputs' = properties_process_inputs(load_tod_transactions(fs[CheckCsv]))
          /\ pc' = "collect"
          /\ UNCHANGED <<raised, ledger>>
     ELSE /\ pc' = "raised"
          /\ raised' = FileNotFoundError
          /\ ledger' = task_exit(ledger, <<"properties">>)
          /\ UNCHANGED <<fs, inputs>>
  /\ UNCHANGED <<cmd, tod_method, max_workers, env, poolVars, blockOf, requests,
                 second, firstRows,
                 scopes, history>>

\* A pool thread runs check_candidate_properties on the task it took.
PropertiesWork(i) ==
  /\ cmd = "properties" /\ pc = "collect"
  /\ i \in running
  /\ running' = running \ {i}
  /\ outq' = Append(outq, check_candidate_properties(inputs[i],
                             env[inputs[i].transaction_hashes], checker))
  /\ UNCHANGED <<cmd, pc, raised, fs, tod_method, max_workers, env, checker,
                 inputs, next, received, ledger, blockOf, requests, second, firstRows,
                 scopes, history>>

\* check_properties(), lines 226-289: one iteration of the collecting loop.
PropertiesCollect ==
  /\ cmd = "properties" /\ pc = "collect"
  /\ outq # <<>>
  /\ LET out == Head(outq)
     IN  IF out.raised
         THEN /\ PoolRaises(out.payload)
              /\ ledger' = task_exit(ledger, <<"properties">>)
              /\ UNCHANGED fs
         ELSE LET result == out.payload
                  id == MakeId(result.transaction_hashes[1], result.transaction_hashes[2])
              IN  /\ ledger' = save_time_ms(ledger, <<"properties", id>>, result.elapsed_ms)
                  /\ fs' = properties_write(fs, result)
                  /\ received' = Append(received, result)
                  /\ outq' = Tail(outq)
                  /\ UNCHANGED <<pc, raised, next, running>>
  /\ UNCHANGED <<cmd, tod_method, max_workers, env, checker, inputs, blockOf,
                 requests, second, firstRows,
                 scopes, history>>

\* check_properties() returns: the loop has received total results; files and
\* pool are closed, and check_command leaves its properties scope.
PropertiesFinish ==
  /\ cmd = "properties" /\ pc = "collect"
  /\ Len(received) = Len(inputs)
  /\ pc' = "done"
  /\ ledger' = task_exit(ledger, <<"properties">>)
  /\ UNCHANGED <<cmd, raised, fs, tod_method, max_workers, env, checker, inputs,
                 poolVars, blockOf, requests, second, firstRows,
                 scopes, history>>

\* The verdict checkpoints the stage is explored with.
VerdictRows == [tx_a : Tx, tx_b : Tx, result : {"TOD", "not TOD", "error"}]
VerdictLists == {rows \in SeqsUpTo(VerdictRows, MaxPairs) :
                   \A i \in 1..Len(rows) : PairOf(rows[i]) \in Pairs}

\* check_command at line 122: check() has returned and left its checkpoint.
InitProperties ==
  /\ cmd = "properties"
  /\ InitCommon
  /\ tod_method \in {"overall"}
  /\ blockOf \in {[t \in Tx |-> Block1]}
  /\ \/ /\ fs = <<>>
        /\ env = <<>>
     \/ \E rows \in VerdictLists :
          /\ fs = WriteFile(<<>>, CheckCsv, <<CheckHeader>> \o rows)
          /\ env \in [Range(load_tod_transactions(<<CheckHeader>> \o rows))
                        -> PropertiesBehaviours]

NextProperties ==
  \/ PropertiesOpen
  \/ TakeTask
  \/ \E i \in running : PropertiesWork(i)
  \/ PropertiesCollect
  \/ PropertiesFinish

SpecProperties == InitProperties /\ [][NextProperties]_vars

\* Either worker pool of check.py: the Check stage or the Properties stage.
SpecPools == (InitCheck \/ InitProperties) /\ [][NextCheck \/ NextProperties]_vars

\* ------------------------------------------------------------ Trace stage
TracesDir == <<"traces">>
ResultsDir == <<"results">>
TraceDir(id) == <<"traces", id>>
ResultFile(id) == <<"results", id, ".json">>

\* mkdir of a directory: it exists and is empty
EmptyDir == <<>>

\* TimeTracker.save_time_step_ms(component, step, elapsed_ms)
save_time_step_ms(rows, component, step, ms) ==
  Append(rows, [type |-> "step", component |-> component, step |-> step, elapsed_ms |-> ms])

\* TimeTracker.save_time_component_ms(component, elapsed_ms)
save_time_component_ms(rows, component, ms) ==
  Append(rows, [type |-> "component", component |-> component, step |-> <<>>,
                elapsed_ms |-> ms])

\* TimeTrackerWatchComponent.__exit__: the row is saved however the body ended
component_exit(rows, component) ==
  save_time_component_ms(rows, component, elapsed_ms(<<component>>))

FileExistsError == [cls |-> "FileExistsError", msg |-> <<>>]
CalledProcessError == [cls |-> "CalledProcessError", msg |-> <<>>]

\* What the external replayer does for a pair: its exit status.
TraceBehaviours == {[exit |-> 0], [exit |-> 1]}

\* load_transactions(csv_path), the file being there
load_transactions(lines) ==
  LET rows == DictReader(lines)
  IN  [i \in 1..Len(rows) |-> <<rows[i].tx_a, rows[i].tx_b>>]

\* TraceArgs((tx_a, tx_b), traces_dir / f"{tx_a}_{tx_b}", provider)
trace_process_inputs(pairs) ==
  [i \in 1..Len(pairs) |->
     [transaction_hashes |-> pairs[i],
      traces_dir |-> TraceDir(MakeId(pairs[i][1], pairs[i][2]))]]

\* run_replayer(...): subprocess.run(args, check=True)
run_replayer(beh) ==
  IF beh.exit # 0 THEN Raise(CalledProcessError) ELSE Return("traces")

\* create_trace(args) on the files f: what it returns or raises, and the files
\* it leaves.
create_trace(args, beh, f) ==
  IF args.traces_dir \in DOMAIN f
  THEN [out |-> Raise(FileExistsError), fs |-> f]
  ELSE LET made == WriteFile(f, args.traces_dir, EmptyDir)
           run == run_replayer(beh)
       IN  IF run.raised
           THEN [out |-> run, fs |-> made]
           ELSE [out |-> Return([id |-> InputId(args),
                                 elapsed_ms |-> elapsed_ms(<<"create_trace", InputId(args)>>)]),
                 fs |-> WriteFile(made, args.traces_dir, <<run.payload>>)]

\* trace_command(), lines 40-53: make the traces directory, read the pairs,
\* enter the component scope and create the pool.
TraceStart ==
  /\ cmd = "trace" /\ pc = "start"
  /\ IF Exists(CandidatesCsv)
     THEN /\ fs' = IF Exists(TracesDir) THEN fs ELSE WriteFile(fs, TracesDir, EmptyDir)
          /\ inputs' = trace_process_inputs(load_transactions(fs[CandidatesCsv]))
          /\ pc' = "collect"
          /\ UNCHANGED raised
     ELSE /\ fs' = IF Exists(TracesDir) THEN fs ELSE WriteFile(fs, TracesDir, EmptyDir)
          /\ pc' = "raised"
          /\ raised' = FileNotFoundError
          /\ UNCHANGED inputs
  /\ UNCHANGED <<cmd, tod_method, max_workers, env, checker, poolVars, ledger,
                 blockOf, requests, second, firstRows,
                 scopes, history>>

\* A pool process runs create_trace on the task it took.
TraceWork(i) ==
  /\ cmd = "trace" /\ pc = "collect"
  /\ i \in running
  /\ LET done == create_trace(inputs[i], env[inputs[i].transaction_hashes], fs)
     IN  /\ fs' = done.fs
         /\ outq' = Append(outq, done.out)
  /\ running' = running \ {i}
  /\ UNCHANGED <<cmd, pc, raised, tod_method, max_workers, env, checker,
                 inputs, next, received, ledger, blockOf, requests, second, firstRows,
                 scopes, history>>

\* trace_command(), lines 54-58: one iteration of the collecting loop.
TraceCollect ==
  /\ cmd = "trace" /\ pc = "collect"
  /\ outq # <<>>
  /\ LET out == Head(outq)
     IN  IF out.raised
         THEN /\ PoolRaises(out.payload)
              /\ ledger' = component_exit(ledger, "trace")
         ELSE /\ ledger' = save_time_step_ms(ledger, "trace", out.payload.id,
                                             out.payload.elapsed_ms)
              /\ received' = Append(received, out.payload)
              /\ outq' = Tail(outq)
              /\ UNCHANGED <<pc, raised, next, running>>
  /\ UNCHANGED <<cmd, fs, tod_method, max_workers, env, checker, inputs, blockOf,
                 requests, second, firstRows,
                 scopes, history>>

\* trace_command(), lines 52-58: the loop has received total results.
TraceFinish ==
  /\ cmd = "trace" /\ pc = "collect"
  /\ Len(received) = Len(inputs)
  /\ pc' = "done"
  /\ ledger' = component_exit(ledger, "trace")
  /\ UNCHANGED <<cmd, raised, fs, tod_method, max_workers, env, checker, inputs,
                 poolVars, blockOf, requests, second, firstRows,
                 scopes, history>>

\* The trace command on a transactions CSV; some trace directories may be left
\* from an earlier invocation.
InitTrace ==
  /\ cmd = "trace"
  /\ InitCommon
  /\ tod_method \in {"overall"}
  /\ blockOf \in {[t \in Tx |-> Block1]}
  /\ \/ /\ fs = <<>>
        /\ env = <<>>
     \/ \E pairs \in CandidateLists :
          /\ env \in [Range(pairs) -> TraceBehaviours]
          /\ \E left \in SUBSET Range(pairs) :
               fs = [q \in {CandidatesCsv} \cup {TraceDir(MakeId(x[1], x[2])) : x \in left} |->
                       IF q = CandidatesCsv THEN CandidatesFile(pairs) ELSE <<"traces">>]

NextTrace ==
  \/ TraceStart
  \/ TakeTask
  \/ \E i \in running : TraceWork(i)
  \/ TraceCollect
  \/ TraceFinish

SpecTrace == InitTrace /\ [][NextTrace]_vars

\* ---------------------------------------------------------- Analyze stage
LoadError == [cls |-> "LoadError", msg |-> <<"metadata">>]
AnalysisError == [cls |-> "Exception", msg |-> <<"Could", "not", "analyze", "traces">>]

\* What loading and analysing one trace directory does: every step returns,
\* or the DirectoryLoader, analyze_attack or save_evaluations raises.
AnalyzeBehaviours == {"ok", "load raises", "analyze_attack raises", "save_evaluations raises"}

\* the id of the bundle a trace directory holds: the name of the directory
bundle_id(traces_path) == traces_path[2]

\* analyze(args) on the files f: what it returns or raises, and the files it
\* leaves. args = [traces_path, results_directory].
analyze(args, beh, f) ==
  IF beh = "load raises"
  THEN [out |-> Raise(LoadError), fs |-> f]
  ELSE LET id == bundle_id(args.traces_path)
           out_path == ResultFile(id)
           error == beh # "ok"
       IN  [out |-> Return([id |-> id, error |-> error,
                            elapsed_ms |-> elapsed_ms(<<"analyze", id>>)]),
            fs |-> WriteFile(f, out_path,
                             IF error THEN <<[exception |-> AnalysisError]>>
                             ELSE <<[report |-> "overall"]>>)]

\* get_trace_dirs(traces_dir): the directories directly under traces_dir
get_trace_dirs(f) == {q \in DOMAIN f : Len(q) = 2 /\ q[1] = "traces"}

\* the orders in which os.scandir may list a set of directories
Orders(S) ==
  {s \in SeqsUpTo(S, Cardinality(S)) : Len(s) = Cardinality(S) /\ Range(s) = S}

\* analyze_command(), lines 61-70: make the results directory, list the trace
\* directories, enter the analyze scope and create the pool.
AnalyzeStart ==
  /\ cmd = "analyze" /\ pc = "start"
  /\ IF Exists(TracesDir)
     THEN /\ \E dirs \in Orders(get_trace_dirs(fs)) :
               inputs' = [i \in 1..Len(dirs) |->
                            [traces_path |-> dirs[i], results_directory |-> ResultsDir]]
          /\ pc' = "collect"
          /\ UNCHANGED raised
     ELSE /\ pc' = "raised"
          /\ raised' = FileNotFoundError
          /\ UNCHANGED inputs
  /\ fs' = IF Exists(ResultsDir) THEN fs ELSE WriteFile(fs, ResultsDir, EmptyDir)
  /\ UNCHANGED <<cmd, tod_method, max_workers, env, checker, poolVars, ledger,
                 blockOf, requests, second, firstRows,
                 scopes, history>>

\* A pool process runs analyze on the task it took.
AnalyzeWork(i) ==
  /\ cmd = "analyze" /\ pc = "collect"
  /\ i \in running
  /\ LET done == analyze(inputs[i], env[inputs[i].traces_path], fs)
     IN  /\ fs' = done.fs
         /\ outq' = Append(outq, done.out)
  /\ running' = running \ {i}
  /\ UNCHANGED <<cmd, pc, raised, tod_method, max_workers, env, checker,
                 inputs, next, received, ledger, blockOf, requests, second, firstRows,
                 scopes, history>>

\* analyze_command(), lines 71-75: one iteration of the collecting loop.
AnalyzeCollect ==
  /\ cmd = "analyze" /\ pc = "collect"
  /\ outq # <<>>
  /\ LET out == Head(outq)
     IN  IF out.raised
         THEN /\ PoolRaises(out.payload)
              /\ ledger' = task_exit(ledger, <<"analyze">>)
         ELSE /\ ledger' = save_time_ms(ledger, <<"analyze", out.payload.id>>,
                                        out.payload.elapsed_ms)
              /\ received' = Append(received, out.payload)
              /\ outq' = Tail(outq)
              /\ UNCHANGED <<pc, raised, next, running>>
  /\ UNCHANGED <<cmd, fs, tod_method, max_workers, env, checker, inputs, blockOf,
                 requests, second, firstRows,
                 scopes, history>>

\* analyze_command(), lines 69-75: the loop has received total results.
AnalyzeFinish ==
  /\ cmd = "analyze" /\ pc = "collect"
  /\ Len(received) = Len(inputs)
  /\ pc' = "done"
  /\ ledger' = task_exit(ledger, <<"analyze">>)
  /\ UNCHANGED <<cmd, raised, fs, tod_method, max_workers, env, checker, inputs,
                 poolVars, blockOf, requests, second, firstRows,
                 scopes, history>>

\* The analyze command on the trace directories an earlier trace left.
InitAnalyze ==
  /\ cmd = "analyze"
  /\ InitCommon
  /\ tod_method \in {"overall"}
  /\ blockOf \in {[t \in Tx |-> Block1]}
  /\ \/ /\ fs = <<>>
        /\ env = <<>>
     \/ \E traced \in SUBSET AllIds :
          /\ Cardinality(traced) <= MaxPairs
          /\ fs = [q \in {TracesDir} \cup {TraceDir(id) : id \in traced} |->
                     IF q = TracesDir THEN EmptyDir ELSE <<"traces">>]
          /\ env \in [{TraceDir(id) : id \in traced} -> AnalyzeBehaviours]

NextAnalyze ==
  \/ AnalyzeStart
  \/ TakeTask
  \/ \E i \in running : AnalyzeWork(i)
  \/ AnalyzeCollect
  \/ AnalyzeFinish

SpecAnalyze == InitAnalyze /\ [][NextAnalyze]_vars

\* ------------------------------------------------ check_candidate on its own
\* check_candidate applied to one CheckArgs, for every behaviour of the Session.
InitClassify ==
  /\ cmd = "classify"
  /\ pc = "start"
  /\ raised = NoExc
  /\ fs = <<>>
  /\ tod_method \in TODMethods
  /\ max_workers = 1
  /\ \E p \in AllPairs :
       /\ env \in [{p} -> CheckBehaviours]
       /\ inputs = <<[transaction_hashes |-> p, tod_method |-> tod_method]>>
  /\ checker = Session
  /\ next = 1
  /\ running = {}
  /\ outq = <<>>
  /\ received = <<>>
  /\ ledger = <<>>
  /\ blockOf \in {[t \in Tx |-> Block1]}
  /\ requests = NoRequests
  /\ second = FALSE
  /\ firstRows = <<>>
  /\ scopes = <<>>
  /\ history = <<>>

ClassifyApply ==
  /\ cmd = "classify" /\ pc = "start"
  /\ LET out == check_candidate(inputs[1], env[inputs[1].transaction_hashes], checker)
     IN  IF out.raised
         THEN /\ pc' = "raised"
              /\ raised' = out.payload
              /\ UNCHANGED received
         ELSE /\ pc' = "done"
              /\ received' = <<out.payload>>
              /\ UNCHANGED raised
  /\ UNCHANGED <<cmd, fs, tod_method, max_workers, env, checker, inputs, next,
                 running, outq, ledger, blockOf, requests, second, firstRows,
                 scopes, history>>

NextClassify == ClassifyApply

SpecClassify == InitClassify /\ [][NextClassify]_vars

\* ------------------------------------------------------- Timing recorder
MaxCalls == 3      \* most timing calls a command makes in one run
MaxDepth == 3      \* deepest nesting of timing scopes, the top-level one included

TimingsCsv == <<"timings.csv">>

\* the row TimeTracker.__enter__ writes first
TimingsHeader == [type |-> "type", component |-> "component", step |-> "step",
                  elapsed_ms |-> "elapsed_ms"]

\* What class TimeTracker defines.
TimeTrackerMethods ==
  {"__init__", "__enter__", "__exit__", "step", "component",
   "save_time_step_ms", "save_time_component_ms"}

\* the parameters of TimeTracker.__init__ after self: csv_path
TimeTrackerInitParams == <<"csv_path">>

AttributeError == [cls |-> "AttributeError", msg |-> <<>>]
TypeError == [cls |-> "TypeError", msg |-> <<>>]

\* Who builds the recorder: cli.main (for the commands with timing = True), or
\* run_command itself, with the positional arguments each passes.
TrackerEntries ==
  { [by |-> "main", args |-> <<TimingsCsv>>],
    [by |-> "run_command", args |-> <<TimingsCsv, "t_race">>] }

\* The timing calls of the stages, each as the method looked up on the
\* recorder and its arguments.
TraceId == MakeId(TxA, TxB)

StageTimingCalls ==
  << [method |-> "component", args |-> <<"trace">>],
     [method |-> "save_time_step_ms",
      args |-> <<"trace", TraceId, elapsed_ms(<<"create_trace", TraceId>>)>>],
     [method |-> "task", args |-> << <<"check">> >>],
     [method |-> "task", args |-> << <<"check", "check">> >>],
     [method |-> "save_time_ms",
      args |-> << <<"check", "check", TraceId>>, elapsed_ms(<<"check_candidate", TxA, TxB>>)>>] >>

\* A step scope, which the recorder offers next to the component scope.
StepCalls == << [method |-> "step", args |-> <<"trace", TraceId>>] >>

TimingCalls == StageTimingCalls \o StepCalls

\* TimeTracker.component(component) / TimeTracker.step(component, step): the
\* watch object, the n-th scope of the run, entered inside scope parent.
Watch(call, n, parent) ==
  [kind |-> call.method,
   component |-> call.args[1],
   step |-> IF call.method = "step" THEN call.args[2] ELSE <<>>,
   n |-> n, parent |-> parent]

\* what the StopWatch of a watch measures
WatchRegion(watch) == <<"watch", watch.n, watch.parent>>

\* Entering a watch writes a row for it straight away.
watch_enter_saving_row(rows, watch) ==
  IF watch.kind = "step"
  THEN save_time_step_ms(rows, watch.component, watch.step, elapsed_ms(WatchRegion(watch)))
  ELSE save_time_component_ms(rows, watch.component, elapsed_ms(WatchRegion(watch)))

\* StopWatch.__enter__: the clock starts, nothing is written
watch_enter(rows, watch) == rows

\* Leaving a watch writes its row only when the body returned.
watch_exit_skipping_failures(rows, watch, exc) ==
  [rows |-> IF exc # NoExc THEN rows
            ELSE IF watch.kind = "step"
            THEN save_time_step_ms(rows, watch.component, watch.step, elapsed_ms(WatchRegion(watch)))
            ELSE save_time_component_ms(rows, watch.component, elapsed_ms(WatchRegion(watch))),
   suppress |-> FALSE]

\* TimeTrackerWatchComponent.__exit__ / TimeTrackerWatchStep.__exit__: stop the
\* clock, save the row, return False
watch_exit(rows, watch, exc) ==
  [rows |-> IF watch.kind = "step"
            THEN save_time_step_ms(rows, watch.component, watch.step, elapsed_ms(WatchRegion(watch)))
            ELSE save_time_component_ms(rows, watch.component, elapsed_ms(WatchRegion(watch))),
   suppress |-> FALSE]

\* events of the run
Entered(watch) == [ev |-> "enter", what |-> watch]
Called(call) == [ev |-> "call", what |-> call]
BodyRaised(e) == [ev |-> "raise", what |-> e]

IsEnter(h) == h.ev = "enter"
IsTimingCall(h) == h.ev \in {"enter", "call"}
NumEntered == Cardinality({i \in 1..Len(history) : IsEnter(history[i])})
NumTimingCalls == Cardinality({i \in 1..Len(history) : IsTimingCall(history[i])})
Innermost == IF scopes = <<>> THEN 0 ELSE scopes[Len(scopes)].n

\* cli.main lines 79-82 / run_command lines 74-75: build the recorder, enter
\* it (the ledger file is opened for writing and gets its header row) and
\* enter the top-level scope.
TimingStart ==
  /\ cmd = "timing" /\ pc = "start"
  /\ IF Len(env.args) # Len(TimeTrackerInitParams)
     THEN /\ pc' = "raised"
          /\ raised' = TypeError
          /\ UNCHANGED <<fs, ledger, scopes, history>>
     ELSE LET top == Watch([method |-> "component", args |-> <<"t_race">>], 1, 0)
          IN  /\ fs' = WriteFile(fs, TimingsCsv, <<>>)
              /\ ledger' = watch_enter(<<TimingsHeader>>, top)
              /\ scopes' = <<top>>
              /\ history' = <<Entered(top)>>
              /\ pc' = "body"
              /\ UNCHANGED raised
  /\ UNCHANGED <<cmd, tod_method, max_workers, env, checker, inputs, poolVars,
                 blockOf, requests, second, firstRows>>

\* The command makes one of its timing calls.
TimingCall(call) ==
  /\ cmd = "timing" /\ pc = "body"
  /\ scopes # <<>>
  /\ NumTimingCalls < MaxCalls + 1
  /\ IF call.method \notin TimeTrackerMethods
     THEN /\ pc' = "unwinding"
          /\ raised' = AttributeError
          /\ history' = Append(history, BodyRaised(AttributeError))
          /\ UNCHANGED <<ledger, scopes>>
     ELSE IF call.method \in {"component", "step"}
     THEN /\ Len(scopes) < MaxDepth
          /\ LET watch == Watch(call, NumEntered + 1, Innermost)
             IN  /\ ledger' = watch_enter(ledger, watch)
                 /\ scopes' = Append(scopes, watch)
                 /\ history' = Append(history, Entered(watch))
          /\ UNCHANGED <<pc, raised>>
     ELSE /\ ledger' = save_time_step_ms(ledger, call.args[1], call.args[2], call.args[3])
          /\ history' = Append(history, Called(call))
          /\ UNCHANGED <<pc, raised, scopes>>
  /\ UNCHANGED <<cmd, fs, tod_method, max_workers, env, checker, inputs, poolVars,
                 blockOf, requests, second, firstRows>>

\* The body of the innermost scope returns: the `with` statement leaves it.
TimingBodyReturns ==
  /\ cmd = "timing" /\ pc = "body"
  /\ scopes # <<>>
  /\ ledger' = watch_exit(ledger, scopes[Len(scopes)], NoExc).rows
  /\ scopes' = SubSeq(scopes, 1, Len(scopes) - 1)
  /\ UNCHANGED <<cmd, pc, raised, fs, tod_method, max_workers, env, checker,
                 inputs, poolVars, blockOf, requests, second, firstRows, history>>

\* The measured code raises inside the innermost scope.
TimingBodyRaises ==
  /\ cmd = "timing" /\ pc = "body"
  /\ scopes # <<>>
  /\ pc' = "unwinding"
  /\ raised' = CalledProcessError
  /\ history' = Append(history, BodyRaised(CalledProcessError))
  /\ UNCHANGED <<cmd, fs, tod_method, max_workers, env, checker, inputs, poolVars,
                 ledger, blockOf, requests, second, firstRows, scopes>>

\* The exception leaves the innermost scope through its __exit__.
TimingUnwind ==
  /\ cmd = "timing" /\ pc = "unwinding"
  /\ scopes # <<>>
  /\ LET left == watch_exit(ledger, scopes[Len(scopes)], raised)
     IN  /\ ledger' = left.rows
         /\ IF left.suppress
            THEN /\ pc' = "body"
                 /\ raised' = NoExc
            ELSE UNCHANGED <<pc, raised>>
  /\ scopes' = SubSeq(scopes, 1, Len(scopes) - 1)
  /\ UNCHANGED <<cmd, fs, tod_method, max_workers, env, checker, inputs, poolVars,
                 blockOf, requests, second, firstRows, history>>

\* TimeTracker.__exit__: the file is closed, which writes out what its buffer
\* holds; an exception on its way goes on.
TimingClose ==
  /\ cmd = "timing" /\ pc \in {"body", "unwinding"}
  /\ scopes = <<>>
  /\ fs' = [fs EXCEPT ![TimingsCsv] = ledger]
  /\ pc' = IF pc = "unwinding" THEN "raised" ELSE "closed"
  /\ UNCHANGED <<cmd, raised, tod_method, max_workers, env, checker, inputs,
                 poolVars, ledger, blockOf, requests, second, firstRows, scopes,
                 history>>

\* The buffer of the open file has filled up and is written out.
TimingBufferFull ==
  /\ cmd = "timing" /\ pc \in {"body", "unwinding"}
  /\ fs[TimingsCsv] # ledger
  /\ fs' = [fs EXCEPT ![TimingsCsv] = ledger]
  /\ UNCHANGED <<cmd, pc, raised, tod_method, max_workers, env, checker, inputs,
                 poolVars, ledger, blockOf, requests, second, firstRows, scopes,
                 history>>

\* The process is killed: no `with` statement is left, no file is closed.
TimingCrash ==
  /\ cmd = "timing" /\ pc \in {"body", "unwinding"}
  /\ pc' = "crashed"
  /\ UNCHANGED <<cmd, raised, fs, tod_method, max_workers, env, checker, inputs,
                 poolVars, ledger, blockOf, requests, second, firstRows, scopes,
                 history>>

InitTiming ==
  /\ cmd = "timing"
  /\ InitCommon
  /\ tod_method \in {"overall"}
  /\ blockOf \in {[t \in Tx |-> Block1]}
  /\ env \in TrackerEntries
  /\ fs \in {<<>>, WriteFile(<<>>, TimingsCsv, <<TimingsHeader>>)}

NextTiming ==
  \/ TimingStart
  \/ \E k \in 1..Len(TimingCalls) : TimingCall(TimingCalls[k])
  \/ TimingBodyReturns
  \/ TimingBodyRaises
  \/ TimingUnwind
  \/ TimingClose
  \/ TimingBufferFull
  \/ TimingCrash

\* One run of a command under the timing recorder.
SpecTiming == InitTiming /\ [][NextTiming]_vars

\* ------------------------------------------------------- block_range_type
MaxInputLen == 4   \* longest --blocks text taken from all texts over Alphabet

\* The characters the texts are made of: decimal digits, the x of the hex
\* prefix, a hex letter, the separator, a sign, and a letter of no numeral.
Alphabet == {"0", "1", "x", "a", "-", "+", "g"}

\* Bounds as a user writes them, and the --blocks texts made of two of them.
BoundTexts ==
  { <<"1", "0", "0">>, <<"2", "0", "0">>, <<"3", "2">>, <<"7">>,
    <<"0", "x", "1", "0">>, <<"0", "x", "2", "0">>, <<"0", "x", "7">> }

BlockTexts ==
  SeqsUpTo(Alphabet, MaxInputLen)
    \cup {a \o <<"-">> \o b : a \in BoundTexts, b \in BoundTexts}

\* the value of a character as a digit; no digit of any base when 99
DigitValue(c) ==
  CASE c = "0" -> 0 [] c = "1" -> 1 [] c = "2" -> 2 [] c = "3" -> 3 [] c = "4" -> 4
    [] c = "5" -> 5 [] c = "6" -> 6 [] c = "7" -> 7 [] c = "8" -> 8 [] c = "9" -> 9
    [] c = "a" -> 10 [] c = "b" -> 11 [] c = "c" -> 12 [] c = "d" -> 13
    [] c = "e" -> 14 [] c = "f" -> 15
    [] OTHER -> 99

\* the number a string of digits of the base denotes; -1 when one is no digit
RECURSIVE ParseDigits(_, _, _)
ParseDigits(s, base, acc) ==
  IF s = <<>> THEN acc
  ELSE IF DigitValue(Head(s)) >= base THEN -1
  ELSE ParseDigits(Tail(s), base, acc * base + DigitValue(Head(s)))

\* int(s) and int(s, 16) of a str without blanks and underscores: an optional
\* sign, with base 16 an optional 0x, then at least one digit; else ValueError
int(s, base) ==
  LET signed == s # <<>> /\ Head(s) \in {"+", "-"}
      unsigned == IF signed THEN Tail(s) ELSE s
      prefixed == base = 16 /\ Len(unsigned) >= 2
                    /\ unsigned[1] = "0" /\ unsigned[2] = "x"
      digits == IF prefixed THEN SubSeq(unsigned, 3, Len(unsigned)) ELSE unsigned
      v == ParseDigits(digits, base, 0)
  IN  IF digits = <<>> \/ v < 0 THEN Raise(ValueError)
      ELSE Return(IF signed /\ Head(s) = "-" THEN 0 - v ELSE v)

HexPrefix == <<"0", "x">>

\* argparse.ArgumentTypeError, with either message of block_range_type
StartHigherThanEnd ==
  [cls |-> "ArgumentTypeError", msg |-> <<"start", "may", "not", "be", "higher", "than", "end">>]
InvalidFormat ==
  [cls |-> "ArgumentTypeError", msg |-> <<"Invalid", "block", "range", "format">>]

BlockRange(start, end) == [start |-> start, end |-> end]

\* Every bound read as a decimal number.
block_range_type_decimal_only(input) ==
  LET parts == Split(input, "-")
  IN  IF Len(parts) # 2 THEN Raise(InvalidFormat)
      ELSE LET start == int(parts[1], 10)
               end == int(parts[2], 10)
           IN  IF start.raised \/ end.raised THEN Raise(InvalidFormat)
               ELSE IF start.payload > end.payload THEN Raise(StartHigherThanEnd)
               ELSE Return(BlockRange(start.payload, end.payload))

\* The two bounds returned as they are read, in whatever order.
block_range_type_unordered(input) ==
  LET parts == Split(input, "-")
  IN  IF Len(parts) # 2 THEN Raise(InvalidFormat)
      ELSE LET start == IF ~Contains(parts[1], HexPrefix)
                        THEN int(parts[1], 10) ELSE int(parts[1], 16)
               end == IF ~Contains(parts[2], HexPrefix)
                      THEN int(parts[2], 10) ELSE int(parts[2], 16)
           IN  IF start.raised \/ end.raised THEN Raise(InvalidFormat)
               ELSE Return(BlockRange(start.payload, end.payload))

\* block_range_type(input): unpacking anything but two parts raises
\* ValueError, as int does; `except ValueError` turns it into the format error
block_range_type(input) ==
  LET parts == Split(input, "-")
  IN  IF Len(parts) # 2 THEN Raise(InvalidFormat)
      ELSE LET start == IF ~Contains(parts[1], HexPrefix)
                        THEN int(parts[1], 10) ELSE int(parts[1], 16)
               end == IF ~Contains(parts[2], HexPrefix)
                      THEN int(parts[2], 10) ELSE int(parts[2], 16)
           IN  IF start.raised \/ end.raised THEN Raise(InvalidFormat)
               ELSE IF start.payload > end.payload THEN Raise(StartHigherThanEnd)
               ELSE Return(BlockRange(start.payload, end.payload))

\* argparse applies block_range_type to the text given for --blocks.
InitBlockRange ==
  /\ cmd = "block_range"
  /\ InitCommon
  /\ tod_method \in {"overall"}
  /\ blockOf \in {[t \in Tx |-> Block1]}
  /\ fs = <<>>
  /\ env \in BlockTexts

BlockRangeApply ==
  /\ cmd = "block_range" /\ pc = "start"
  /\ LET out == block_range_type(env)
     IN  IF out.raised
         THEN /\ pc' = "raised"
              /\ raised' = out.payload
              /\ UNCHANGED received
         ELSE /\ pc' = "done"
              /\ received' = <<out.payload>>
              /\ UNCHANGED raised
  /\ UNCHANGED <<cmd, fs, tod_method, max_workers, env, checker, inputs, next,
                 running, outq, ledger, blockOf, requests, second, firstRows,
                 scopes, history>>

NextBlockRange == BlockRangeApply

SpecBlockRange == InitBlockRange /\ [][NextBlockRange]_vars

\* ------------------------------------------------------------ run command
MinerStatsJson == <<"mining_stats.json">>
StatsDir == <<"stats">>

\* psycopg.connect(conn_str) fails
OperationalError == [cls |-> "OperationalError", msg |-> <<>>]

\* What the replay does for a pair in run mode: checker.check for the Check
\* stage (both comparisons differ, neither does, or it raises), and the
\* tracing and the analysis of trace_analyze.
RunCheckBehaviours ==
  {x \in CheckBehaviours :
     \/ x.at = "none" /\ x.b = x.o
     \/ x.at = "check" /\ x.exc = [cls |-> "RuntimeError", msg |-> <<"timeout">>]}

TraceAnalyzeBehaviours == {"ok", "trace raises", "analyze_attack raises"}

\* events of the run
Started(stage) == [ev |-> "start", what |-> stage]
Finished(stage) == [ev |-> "finish", what |-> stage]
\* create_checker(provider): the n-th session of the run, made by `by`
Created(n, by) == [ev |-> "create_checker", what |-> <<n, by>>]
IsCreated(h) == h.ev = "create_checker"
\* change_checker_executor_provider(checker, traces_provider), called by `by`
\* on the n-th session of the run
Switched(n, by) == [ev |-> "change_checker_executor_provider", what |-> <<n, by>>]
IsSwitched(h) == h.ev = "change_checker_executor_provider"
NumCreated == Cardinality({i \in 1..Len(history) : IsCreated(history[i])})

\* leaving several task scopes, innermost first
RECURSIVE task_exits(_, _)
task_exits(rows, paths) ==
  IF paths = <<>> THEN rows
  ELSE task_exits(task_exit(rows, Head(paths)), Tail(paths))

\* the task scopes mine() enters and leaves one after the other
MineTasks ==
  << <<"mine", "fetch">>, <<"mine", "candidates">>, <<"mine", "filter">>,
     <<"mine", "save_candidates">>, <<"mine", "stats">> >>

\* The failure of the database connection is written down as an empty
\* candidates checkpoint and the run goes on.
RunMine_continuing_after_failure ==
  /\ cmd = "run" /\ pc = "start"
  /\ fs' = WriteFile(WriteFile(fs, CandidatesCsv,
                               CandidatesFile(IF env.db = "down" THEN <<>> ELSE env.mined)),
                     MinerStatsJson, <<"stats">>)
  /\ ledger' = task_exits(ledger, MineTasks \o << <<"mine">> >>)
  /\ history' = history \o <<Started("mine"), Finished("mine")>>
  /\ pc' = "create_checker"
  /\ UNCHANGED <<cmd, raised, tod_method, max_workers, env, checker, inputs, poolVars,
                 blockOf, requests, second, firstRows, scopes>>

\* run_command lines 74-77, run_mining, mine: connect to the database, mine
\* the block range, write the candidates checkpoint and the miner's stats.
RunMine ==
  /\ cmd = "run" /\ pc = "start"
  /\ IF env.db = "down"
     THEN /\ pc' = "raised"
          /\ raised' = OperationalError
          /\ ledger' = task_exits(ledger, << <<"mine">>, <<"t_race">> >>)
          /\ history' = Append(history, Started("mine"))
          /\ UNCHANGED fs
     ELSE /\ fs' = WriteFile(WriteFile(fs, CandidatesCsv, CandidatesFile(env.mined)),
                             MinerStatsJson, <<"stats">>)
          /\ ledger' = task_exits(ledger, MineTasks \o << <<"mine">> >>)
          /\ history' = history \o <<Started("mine"), Finished("mine")>>
          /\ pc' = "create_checker"
          /\ UNCHANGED raised
  /\ UNCHANGED <<cmd, tod_method, max_workers, env, checker, inputs, poolVars,
                 blockOf, requests, second, firstRows, scopes>>

\* run_command line 79: checker = create_checker(args.provider)
RunCreateChecker ==
  /\ cmd = "run" /\ pc = "create_checker"
  /\ checker' = Session
  /\ history' = Append(history, Created(NumCreated + 1, "run_command"))
  /\ pc' = "check"
  /\ UNCHANGED <<cmd, raised, fs, tod_method, max_workers, env, inputs, poolVars,
                 ledger, blockOf, requests, second, firstRows, scopes>>

\* the collecting loop of check() over the results in their order of arrival
RECURSIVE check_write_all(_, _)
check_write_all(f, results) ==
  IF results = <<>> THEN f
  ELSE check_write_all(check_write(f, Head(results)), Tail(results))

RECURSIVE check_save_times(_, _)
check_save_times(rows, results) ==
  IF results = <<>> THEN rows
  ELSE check_save_times(
         save_time_ms(rows, <<"check", "check", Head(results).id>>, Head(results).elapsed_ms),
         Tail(results))

\* run_command lines 80-81, run_check, check: the whole Check stage with the
\* session of run_command, the results arriving in any order; a request the
\* provider fails while prefetching ends the run.
RunCheck ==
  /\ cmd = "run" /\ pc = "check"
  /\ LET pairs == load_tod_candidates(fs[CandidatesCsv])
         args == check_process_inputs(pairs, tod_method)
     IN  \/ /\ env.provider = "fails"
            /\ pc' = "raised"
            /\ raised' = ProviderError
            /\ ledger' = task_exits(ledger, << <<"check", "download transactions">>,
                                              <<"check">>, <<"t_race">> >>)
            /\ history' = Append(history, Started("check"))
            /\ UNCHANGED fs
         \/ /\ env.provider = "ok"
            /\ \E order \in Orders(1..Len(args)) :
                 LET results == [k \in 1..Len(args) |->
                                   check_candidate(args[order[k]],
                                                   env.check[pairs[order[k]]],
                                                   checker).payload]
                 IN  /\ fs' = check_write_all(
                                WriteFile(WriteFile(fs, CheckCsv, <<CheckHeader>>),
                                          CheckJsonl, <<>>),
                                results)
                     /\ ledger' = task_exits(
                                    check_save_times(
                                      task_exits(ledger,
                                                 << <<"check", "download transactions">>,
                                                    <<"check", "fetch state changes">> >>),
                                      results),
                                    << <<"check", "check">>, <<"check">> >>)
            /\ history' = history \o <<Started("check"), Finished("check")>>
            /\ pc' = "trace_analyze"
            /\ UNCHANGED raised
  /\ UNCHANGED <<cmd, tod_method, max_workers, env, checker, inputs, poolVars,
                 blockOf, requests, second, firstRows, scopes>>

\* TraceAnalyzeArgs(tx_pair, results_dir, provider, traces_provider)
trace_analyze_process_inputs(transactions) ==
  [i \in 1..Len(transactions) |->
     [transaction_hashes |-> transactions[i], results_directory |-> ResultsDir]]

\* run_command line 83, run_trace_analyze lines 132-145: make the results and
\* traces directories, read the TOD pairs of the verdict checkpoint, create
\* the pool.
RunTraceAnalyzeStart ==
  /\ cmd = "run" /\ pc = "trace_analyze"
  /\ LET made == IF Exists(ResultsDir) THEN fs ELSE WriteFile(fs, ResultsDir, EmptyDir)
     IN  fs' = IF TracesDir \in DOMAIN made THEN made
               ELSE WriteFile(made, TracesDir, EmptyDir)
  /\ inputs' = trace_analyze_process_inputs(load_tod_transactions(fs[CheckCsv]))
  /\ next' = 1
  /\ running' = {}
  /\ outq' = <<>>
  /\ received' = <<>>
  /\ history' = Append(history, Started("trace_analyze"))
  /\ pc' = "collect"
  /\ UNCHANGED <<cmd, raised, tod_method, max_workers, env, checker, ledger,
                 blockOf, requests, second, firstRows, scopes>>

\* the argument trace_analyze hands to save_evaluations
AttackEvaluations == [kind |-> "AttackEvaluations"]

\* save_evaluations(evaluations, path): `for evaluation in evaluations`
save_evaluations(evaluations) ==
  IF evaluations.kind = "list" THEN Return([report |-> "overall"])
  ELSE Raise(TypeError)

\* trace_analyze going on to the analysis after a failed tracing: the
\* analysis of the missing traces fails as well and overwrites the file.
trace_analyze_without_early_return(args, beh, f) ==
  LET id == InputId(args)
      out_path == ResultFile(id)
      error_trace == beh = "trace raises"
      saved == save_evaluations(AttackEvaluations)
      error_analyze == error_trace \/ beh = "analyze_attack raises" \/ saved.raised
  IN  [out |-> Return([id |-> id, error_trace |-> error_trace,
                       error_analyze |-> error_analyze,
                       ms_trace |-> elapsed_ms(<<"trace", id>>),
                       ms_analyze |-> elapsed_ms(<<"analyze", id>>)]),
       fs |-> WriteFile(f, out_path,
                        IF error_analyze THEN <<[exception_analyze |-> "traceback"]>>
                        ELSE <<saved.payload>>)]

\* trace_analyze(args): a session of its own, tracing, then the analysis;
\* an exception of either part is written to the output file of the pair.
trace_analyze(args, beh, f) ==
  LET id == InputId(args)
      out_path == ResultFile(id)
      error_trace == beh = "trace raises"
      saved == save_evaluations(AttackEvaluations)
      error_analyze == ~error_trace /\ (beh = "analyze_attack raises" \/ saved.raised)
  IN  [out |-> Return([id |-> id, error_trace |-> error_trace,
                       error_analyze |-> error_analyze,
                       ms_trace |-> elapsed_ms(<<"trace", id>>),
                       ms_analyze |-> IF error_trace THEN 0
                                      ELSE elapsed_ms(<<"analyze", id>>)]),
       fs |-> WriteFile(f, out_path,
                        IF error_trace THEN <<[exception_trace |-> "traceback"]>>
                        ELSE IF error_analyze THEN <<[exception_analyze |-> "traceback"]>>
                        ELSE <<saved.payload>>)]

\* The item takes the session of run_command and switches its provider.
RunTraceAnalyzeWork_on_shared_session(i) ==
  /\ cmd = "run" /\ pc = "collect"
  /\ i \in running
  /\ LET done == trace_analyze(inputs[i], env.replay[inputs[i].transaction_hashes], fs)
     IN  /\ fs' = done.fs
         /\ outq' = Append(outq, done.out)
  /\ history' = Append(history, Switched(1, InputId(inputs[i])))
  /\ running' = running \ {i}
  /\ UNCHANGED <<cmd, pc, raised, tod_method, max_workers, env, checker, inputs,
                 next, received, ledger, blockOf, requests, second, firstRows, scopes>>

\* A pool process runs trace_analyze on the task it took; line 180 makes the
\* session the item works with, line 192 switches the provider of that
\* session unless the downloads before it raised.
RunTraceAnalyzeWork(i) ==
  /\ cmd = "run" /\ pc = "collect"
  /\ i \in running
  /\ LET beh == env.replay[inputs[i].transaction_hashes]
         done == trace_analyze(inputs[i], beh, fs)
         n == NumCreated + 1
         id == InputId(inputs[i])
     IN  /\ fs' = done.fs
         /\ outq' = Append(outq, done.out)
         /\ \E reached \in (IF beh = "trace raises" THEN BOOLEAN ELSE {TRUE}) :
              history' = history \o <<Created(n, id)>>
                           \o (IF reached THEN <<Switched(n, id)>> ELSE <<>>)
  /\ running' = running \ {i}
  /\ UNCHANGED <<cmd, pc, raised, tod_method, max_workers, env, checker, inputs,
                 next, received, ledger, blockOf, requests, second, firstRows, scopes>>

\* run_trace_analyze lines 146-152: one iteration of the collecting loop.
RunTraceAnalyzeCollect ==
  /\ cmd = "run" /\ pc = "collect"
  /\ outq # <<>>
  /\ LET result == Head(outq).payload
     IN  ledger' = save_time_ms(save_time_ms(ledger, <<"trace", result.id>>, result.ms_trace),
                                <<"analyze", result.id>>, result.ms_analyze)
  /\ received' = Append(received, Head(outq).payload)
  /\ outq' = Tail(outq)
  /\ UNCHANGED <<cmd, pc, raised, fs, tod_method, max_workers, env, checker, inputs,
                 next, running, blockOf, requests, second, firstRows, scopes, history>>

\* The pool is left before every result has been received.
RunTraceAnalyzeFinish_without_waiting ==
  /\ cmd = "run" /\ pc = "collect"
  /\ pc' = "stats"
  /\ ledger' = task_exits(ledger, << <<"trace_analyze">>, <<"t_race">> >>)
  /\ history' = Append(history, Finished("trace_analyze"))
  /\ UNCHANGED <<cmd, raised, fs, tod_method, max_workers, env, checker, inputs,
                 poolVars, blockOf, requests, second, firstRows, scopes>>

\* run_trace_analyze lines 145-152, run_command lines 83-90: the loop has
\* received total results; the pool, the trace_analyze scope, the t_race
\* scope and the recorder are left.
RunTraceAnalyzeFinish ==
  /\ cmd = "run" /\ pc = "collect"
  /\ Len(received) = Len(inputs)
  /\ pc' = "stats"
  /\ ledger' = task_exits(ledger, << <<"trace_analyze">>, <<"t_race">> >>)
  /\ history' = Append(history, Finished("trace_analyze"))
  /\ UNCHANGED <<cmd, raised, fs, tod_method, max_workers, env, checker, inputs,
                 poolVars, blockOf, requests, second, firstRows, scopes>>

\* run_command line 92: process_stats(base_dir, base_dir / STATS_PATH)
RunStats ==
  /\ cmd = "run" /\ pc = "stats"
  /\ fs' = WriteFile(fs, StatsDir, <<"stats">>)
  /\ history' = history \o <<Started("stats"), Finished("stats")>>
  /\ pc' = "done"
  /\ UNCHANGED <<cmd, raised, tod_method, max_workers, env, checker, inputs,
                 poolVars, ledger, blockOf, requests, second, firstRows, scopes>>

\* t_race run: the database gives some list of candidates.
InitRun ==
  /\ cmd = "run"
  /\ InitCommon
  /\ tod_method = "overall"
  /\ blockOf \in {[t \in Tx |-> Block1]}
  /\ fs = <<>>
  /\ \E pairs \in CandidateLists :
       env \in [mined : {pairs}, db : {"ok", "down"}, provider : {"ok", "fails"},
                check : [Range(pairs) -> RunCheckBehaviours],
                replay : [Range(pairs) -> TraceAnalyzeBehaviours]]

NextRun ==
  \/ RunMine
  \/ RunCreateChecker
  \/ RunCheck
  \/ RunTraceAnalyzeStart
  \/ TakeTask
  \/ \E i \in running : RunTraceAnalyzeWork(i)
  \/ RunTraceAnalyzeCollect
  \/ RunTraceAnalyzeFinish
  \/ RunStats

SpecRun == InitRun /\ [][NextRun]_vars

\* The stages that read the TOD pairs of the verdict checkpoint: the
\* Properties stage, or the trace/analyze stage of a run.
SpecTodConsumers == (InitProperties \/ InitRun) /\ [][NextProperties \/ NextRun]_vars

\* Any stage with a parallel phase: Check, Properties, Trace, Analyze, or the
\* trace/analyze stage of a run.
SpecStages ==
  /\ InitCheck \/ InitProperties \/ InitTrace \/ InitAnalyze \/ InitRun
  /\ [][NextCheck \/ NextProperties \/ NextTrace \/ NextAnalyze \/ NextRun]_vars

\* ---------------------------------------------------------- check command
\* The Properties stage is entered while the Check stage is still in its
\* collecting loop.
CheckCommandProperties_without_waiting ==
  /\ cmd = "check" /\ pc \in {"collect", "done"}
  /\ cmd' = "properties"
  /\ pc' = "start"
  /\ env' \in [Range(load_tod_transactions(fs[CheckCsv])) -> PropertiesBehaviours]
  /\ inputs' = <<>>
  /\ next' = 1
  /\ running' = {}
  /\ outq' = <<>>
  /\ received' = <<>>
  /\ ledger' = task_exit(ledger, <<"check">>)
  /\ history' = history \o <<Finished("check"), Started("properties")>>
  /\ UNCHANGED <<raised, fs, tod_method, max_workers, checker, blockOf, requests,
                 second, firstRows, scopes>>

\* check_command, lines 110-122: check() has returned, the check scope is
\* left and the properties scope is entered; the TOD pairs of the checkpoint
\* meet collaborators behaving in any way.
CheckCommandProperties ==
  /\ cmd = "check" /\ pc = "done"
  /\ cmd' = "properties"
  /\ pc' = "start"
  /\ env' \in [Range(load_tod_transactions(fs[CheckCsv])) -> PropertiesBehaviours]
  /\ inputs' = <<>>
  /\ next' = 1
  /\ running' = {}
  /\ outq' = <<>>
  /\ received' = <<>>
  /\ ledger' = task_exit(ledger, <<"check">>)
  /\ history' = history \o <<Finished("check"), Started("properties")>>
  /\ UNCHANGED <<raised, fs, tod_method, max_workers, checker, blockOf, requests,
                 second, firstRows, scopes>>

\* t_race check: the Check stage, then the Properties stage on what it wrote.
NextCheckCommand ==
  \/ CheckLoad
  \/ CheckDownloadTransactions
  \/ CheckFetchStateChanges
  \/ CheckOpen
  \/ TakeTask
  \/ \E i \in running : CheckWork(i)
  \/ CheckCollect
  \/ CheckFinish
  \/ CheckCommandProperties
  \/ NextProperties

SpecCheckCommand == InitCheck /\ [][NextCheckCommand]_vars

\* The stages whose items write files: Trace, Analyze, or the trace/analyze
\* stage of a run.
SpecWriters ==
  /\ InitTrace \/ InitAnalyze \/ InitRun
  /\ [][NextTrace \/ NextAnalyze \/ NextRun]_vars

\* What an earlier invocation on other candidates left in the result files.
EarlierCheckCsv == <<CheckHeader, [tx_a |-> TxA, tx_b |-> TxA, result |-> "TOD"]>>
EarlierCheckJsonl == <<[tx_a |-> TxA, tx_b |-> TxA, details |-> Null, failure |-> None]>>

\* The replay behaviours the setup of the stage is explored with.
SetupCheckBehaviours == {x \in StageCheckBehaviours : x.at = "none"}

\* The Check stage on a base_dir that may hold the result files of an earlier
\* invocation and may lack the candidates checkpoint.
InitCheckSetup ==
  /\ cmd = "check"
  /\ InitCommon
  /\ tod_method \in TODMethods
  /\ blockOf \in BlockMaps
  /\ \E earlier \in SUBSET {CheckCsv, CheckJsonl} :
       LET left == [q \in earlier |-> IF q = CheckCsv THEN EarlierCheckCsv
                                      ELSE EarlierCheckJsonl]
       IN  \/ /\ fs = left
              /\ env = <<>>
           \/ \E pairs \in CandidateLists :
                /\ fs = WriteFile(left, CandidatesCsv, CandidatesFile(pairs))
                /\ env \in [Range(pairs) -> SetupCheckBehaviours]

SpecCheckSetup == InitCheckSetup /\ [][NextCheck]_vars

\* One invocation of the Check stage.
NextCheckOnce ==
  \/ CheckLoad
  \/ CheckDownloadTransactions
  \/ CheckFetchStateChanges
  \/ CheckOpen
  \/ TakeTask
  \/ \E i \in running : CheckWork(i)
  \/ CheckCollect
  \/ CheckFinish

\* The calling thread goes on with its next statement, an idle worker of the
\* pool takes a waiting task, and a work function that was started returns.
FairCheck ==
  /\ WF_vars(CheckLoad)
  /\ WF_vars(CheckDownloadTransactions)
  /\ WF_vars(CheckFetchStateChanges)
  /\ WF_vars(CheckOpen)
  /\ WF_vars(TakeTask)
  /\ WF_vars(\E i \in running : CheckWork(i))
  /\ WF_vars(CheckCollect)
  /\ WF_vars(CheckFinish)

\* The Check stage on any candidate list, each pair TOD, not TOD or failing.
InitCheckLive ==
  /\ cmd = "check"
  /\ InitCommon
  /\ tod_method \in TODMethods
  /\ blockOf \in BlockMaps
  /\ \/ /\ fs = <<>>
        /\ env = <<>>
     \/ \E pairs \in CandidateLists :
          /\ fs = WriteFile(<<>>, CandidatesCsv, CandidatesFile(pairs))
          /\ env \in [Range(pairs) -> RunCheckBehaviours]

SpecCheckLive == InitCheckLive /\ [][NextCheckOnce]_vars /\ FairCheck

\* ------------------------------------------------ properties of the recorder
EnteredWatches == {history[i].what : i \in {k \in 1..Len(history) : IsEnter(history[k])}}
IsOpen(watch) == \E k \in 1..Len(scopes) : scopes[k] = watch
IsRowOf(row, watch) ==
  /\ row.type \in {"component", "step"}
  /\ row.elapsed_ms = elapsed_ms(WatchRegion(watch))
RowsOf(watch) == Cardinality({i \in 1..Len(ledger) : IsRowOf(ledger[i], watch)})
HasRaised == \E i \in 1..Len(history) : history[i].ev = "raise"

\* C12: every entry of a timing scope, component or step, appends exactly one
\* record when the scope exits, however its body ended: a scope that is open
\* has no row, a scope that was left has one row, of its kind and with its
\* names; and an exception raised in a body is not swallowed by the scopes it
\* leaves: it stays on its way until it has left the command.
C12_OneRecordPerScope ==
  cmd = "timing" =>
    /\ \A w \in EnteredWatches :
         /\ RowsOf(w) = IF IsOpen(w) THEN 0 ELSE 1
         /\ \A i \in 1..Len(ledger) :
              IsRowOf(ledger[i], w) =>
                /\ ledger[i].type = w.kind
                /\ ledger[i].component = w.component
                /\ ledger[i].step = w.step
    /\ HasRaised =>
         /\ pc \in {"unwinding", "raised", "crashed"}
         /\ raised # NoExc
         /\ history[Len(history)] = BodyRaised(raised)

\* A body raised inside a step scope nested in the top-level scope; both rows
\* are written and the exception has left the command.
C12_Witness ==
  /\ cmd = "timing" /\ pc = "raised"
  /\ raised = CalledProcessError
  /\ \E w \in EnteredWatches : w.kind = "step" /\ w.parent = 1 /\ RowsOf(w) = 1
  /\ \E w \in EnteredWatches : w.parent = 0 /\ RowsOf(w) = 1

\* C13: the ledger is flushed per record: at every point of a run each timing
\* record handed to the recorder is in the ledger file on disk, so that a
\* crash at that point loses none of them.
C13_FlushedPerRecord ==
  (cmd = "timing" /\ history # <<>>) =>
    \A i \in 1..Len(ledger) :
      (ledger[i] # TimingsHeader) =>
        /\ i <= Len(fs[TimingsCsv])
        /\ fs[TimingsCsv][i] = ledger[i]

\* C14: nested scopes give independent rows, one per scope, the row of an
\* inner scope before the row of the scope enclosing it, the row of the
\* top-level scope last of all; no row is taken back or merged when the
\* enclosing scope is left.
C14_InnerRowBeforeOuter ==
  cmd = "timing" =>
    /\ \A w, v \in EnteredWatches :
         (w.parent = v.n) =>
           \A i, j \in 1..Len(ledger) :
             (IsRowOf(ledger[i], w) /\ IsRowOf(ledger[j], v)) => i < j
    /\ \A w \in EnteredWatches : RowsOf(w) <= 1
    /\ Len(ledger) =
         (IF history = <<>> THEN 0 ELSE 1)
         + Cardinality({w \in EnteredWatches : ~IsOpen(w)})
         + Cardinality({i \in 1..Len(history) : history[i].ev = "call"})
    /\ (pc \in {"closed", "raised"} /\ history # <<>>) =>
         \E w \in EnteredWatches : w.parent = 0 /\ IsRowOf(ledger[Len(ledger)], w)

\* Three scopes, one inside the other, all left: three rows, innermost first.
C14_Witness ==
  /\ cmd = "timing" /\ pc = "closed"
  /\ \E w, v \in EnteredWatches :
       /\ w.parent = v.n /\ v.parent = 1
       /\ IsRowOf(ledger[Len(ledger) - 2], w)
       /\ IsRowOf(ledger[Len(ledger) - 1], v)

\* C15: every timing call the stages make, the scoped measurement of a task
\* path and the direct saving of (path, elapsed_ms), is an operation the
\* recorder provides: none of them fails for want of the operation, nor does
\* building the recorder, and each direct saving leaves a row that keeps the
\* segments of its path in order.
C15_StageCallsProvided ==
  cmd = "timing" =>
    /\ raised.cls \notin {"AttributeError", "TypeError"}
    /\ \A i \in 1..Len(history) :
         (history[i].ev = "call") =>
           \E k \in 1..Len(ledger) :
             /\ ledger[k].type = "step"
             /\ <<ledger[k].component, ledger[k].step>>
                  = <<history[i].what.args[1], history[i].what.args[2]>>

\* ------------------------------------------------ properties of the pools
\* the id of the pair a result is for
ResultId(result) ==
  IF cmd = "check" THEN result.id
  ELSE MakeId(result.transaction_hashes[1], result.transaction_hashes[2])

\* C1: of N pairs handed to the Check pool or to the Properties pool, the
\* collecting loop receives exactly N results, one for each input (per id as
\* many results as inputs, never more on the way), whichever work functions
\* fail inside and in whichever order the workers complete: each input is
\* pending, running, finished or received, no exception of a work function
\* reaches the loop, and the loop ends with all N.
C1_ExactlyOneResultPerInput ==
  /\ (pc = "collect") =>
       Len(received) + Len(outq) + Cardinality(running) + (Len(inputs) + 1 - next)
         = Len(inputs)
  /\ (pc \in {"collect", "done"}) =>
       \A id \in AllIds :
         LET IsId(r) == ResultId(r) = id
             ForId(a) == InputId(a) = id
         IN  /\ Count(received, IsId) <= Count(inputs, ForId)
             /\ (pc = "done") => Count(received, IsId) = Count(inputs, ForId)
  /\ (pc = "raised") => raised.cls \in {"FileNotFoundError", "ConnectionError"}

\* Properties: two TOD pairs, the first to be received is the second input and
\* its work function failed inside; all the same both results are in.
C1_Witness ==
  /\ cmd = "properties" /\ pc = "done"
  /\ Len(inputs) = 2 /\ Len(received) = 2
  /\ InputId(inputs[1]) # InputId(inputs[2])
  /\ ResultId(received[1]) = InputId(inputs[2])
  /\ received[1].error # Null

\* The same in the Check stage.
C1_WitnessCheck ==
  /\ cmd = "check" /\ pc = "done"
  /\ Len(inputs) = 2 /\ Len(received) = 2
  /\ InputId(inputs[1]) # InputId(inputs[2])
  /\ ResultId(received[1]) = InputId(inputs[2])
  /\ received[1].result = "error"

\* ------------------------------------------------ properties of the Check stage
\* The data rows of the results CSV and the lines of the details JSONL.
CheckRows == IF Exists(CheckCsv) THEN DictReader(fs[CheckCsv]) ELSE <<>>
CheckLines == IF Exists(CheckJsonl) THEN fs[CheckJsonl] ELSE <<>>

Verdicts == {"TOD", "not TOD"}

\* C2: when the Check stage has completed, the results CSV holds one row and
\* the details JSONL one line for each entry of the candidates checkpoint,
\* whatever the outcome of the pair: per pair, as many rows and as many lines
\* as the checkpoint has entries for it, and nothing else.
C2_OneRowAndLinePerPair ==
  (cmd = "check" /\ pc = "done") =>
    /\ Len(CheckRows) = Len(transaction_pairs)
    /\ Len(CheckLines) = Len(transaction_pairs)
    /\ \A p \in Pairs :
         LET IsP(q) == q = p
             RowOfP(r) == PairOf(r) = p
         IN  /\ Count(CheckRows, RowOfP) = Count(transaction_pairs, IsP)
             /\ Count(CheckLines, RowOfP) = Count(transaction_pairs, IsP)

\* A completed stage whose two pairs ended as a verdict and as a failure.
C2_Witness ==
  /\ cmd = "check" /\ pc = "done"
  /\ Len(transaction_pairs) = 2
  /\ \E i, j \in 1..Len(CheckRows) :
       /\ CheckRows[i].result = "TOD"
       /\ CheckRows[j].result = "replay diverged"

\* C7: every detail line Check has written has failure = null exactly when the
\* result of its pair is "TOD" or "not TOD", and then its details field holds
\* the comparison checker.check returned for that very pair.
C7_FailureNullIffVerdict ==
  cmd = "check" =>
    /\ Len(CheckLines) = Len(CheckRows)
    /\ \A i \in 1..Len(CheckLines) :
         LET line == CheckLines[i]
             row == CheckRows[i]
             beh == env[PairOf(line)]
         IN  /\ PairOf(row) = PairOf(line)
             /\ (line.failure = None) <=> (row.result \in Verdicts)
             /\ (line.failure = None) =>
                  /\ line.details # Null
                  /\ line.details[1] =
                       as_dict([tx_a |-> line.tx_a, tx_b |-> line.tx_b,
                                tx_b_comparison |-> beh.b,
                                overall_comparison |-> beh.o])

\* Lines of both kinds are written: a verdict, and a failure whose details
\* are populated all the same.
C7_Witness ==
  /\ cmd = "check"
  /\ \E i, j \in 1..Len(CheckLines) :
       /\ CheckLines[i].failure = None /\ CheckLines[i].details # Null
       /\ CheckLines[j].failure # None /\ CheckLines[j].details # Null

\* C8: for a pair whose replay raises ReplayDivergedException, Check writes the
\* result "replay diverged" and a detail line with details = null and failure
\* naming the divergence ("replay diverged").
C8_ReplayDiverged ==
  cmd = "check" =>
    \A i \in 1..Len(CheckLines) :
      LET line == CheckLines[i]
          beh == env[PairOf(line)]
      IN  (beh.at = "check" /\ beh.exc.cls = "ReplayDivergedException") =>
            /\ CheckRows[i].result = "replay diverged"
            /\ line.details = Null
            /\ line.failure = "replay diverged"

C8_Witness ==
  /\ cmd = "check"
  /\ \E i \in 1..Len(CheckLines) :
       /\ env[PairOf(CheckLines[i])].exc.cls = "ReplayDivergedException"
       /\ CheckRows[i].result = "replay diverged"

\* The text a detail line keeps about the failure of its pair.
FailureText(line) == IF line.failure = None THEN <<>> ELSE <<line.failure>>

\* C9: an exception of the work function that is not pre-classified gives the
\* result "error", and its diagnostic text is in the detail line of the pair.
C9_DiagnosticTextPreserved ==
  cmd = "check" =>
    \A i \in 1..Len(CheckLines) :
      LET line == CheckLines[i]
          beh == env[PairOf(line)]
      IN  (beh.at # "none" /\ beh.exc.cls = "RuntimeError"
             /\ ~Contains(Lower(beh.exc.msg), InsufficientFunds)) =>
            /\ CheckRows[i].result = "error"
            /\ Contains(FailureText(line), beh.exc.msg)

\* C10: the classification of a pair being a function of the pair, the second
\* invocation on the same candidates checkpoint leaves the same set of
\* (tx_a, tx_b, result) rows as the first, for all completion orders of both.
C10_SameVerdictSet ==
  (cmd = "check" /\ second /\ pc = "done") => Range(CheckRows) = Range(firstRows)

\* Two completed invocations whose rows are in different orders.
C10_Witness ==
  /\ cmd = "check" /\ second /\ pc = "done"
  /\ Len(CheckRows) = 2
  /\ CheckRows # firstRows

\* C11: a re-run of Check supersedes and does not merge: from the moment the
\* second invocation has opened its files, the results CSV holds the header
\* and the rows of the results this invocation has received, and the details
\* JSONL their lines, and nothing else; once it has completed that is one row
\* and one line per pair of the current candidates checkpoint, with nothing
\* left of the first invocation.
C11_RerunSupersedes ==
  (cmd = "check" /\ second /\ pc \in {"collect", "done"}) =>
    /\ fs[CheckCsv] = <<CheckHeader>> \o [i \in 1..Len(received) |-> check_row(received[i])]
    /\ fs[CheckJsonl] = [i \in 1..Len(received) |-> check_details(received[i])]
    /\ (pc = "done") =>
         /\ Len(CheckRows) = Len(transaction_pairs)
         /\ Len(CheckLines) = Len(transaction_pairs)

\* The second invocation has completed over a checkpoint of two pairs, the
\* first having left two rows.
C11_Witness ==
  /\ cmd = "check" /\ second /\ pc = "done"
  /\ Len(firstRows) = 2
  /\ Len(fs[CheckCsv]) = 3 /\ Len(fs[CheckJsonl]) = 2

\* ------------------------------------------------ properties of check_candidate
TODResults ==
  {"TOD", "not TOD", "replay diverged", "insufficient ether replay detected",
   "insufficient ether replay error", "error"}

\* the message has the words "insufficient funds", in any letter case
SaysInsufficientFunds(msg) ==
  \E k \in 1..Len(msg) :
    /\ k < Len(msg)
    /\ msg[k] \in {"insufficient", "Insufficient", "INSUFFICIENT"}
    /\ msg[k + 1] \in {"funds", "Funds", "FUNDS"}

Applied == cmd = "classify" /\ pc = "done"
AppliedBeh == env[inputs[1].transaction_hashes]

\* C5: check_candidate gives each pair one of the six results: a verdict when
\* the comparison returned without exception, "replay diverged" for
\* ReplayDivergedException, "insufficient ether replay detected" for
\* InsufficientEtherReplayException, "insufficient ether replay error" for any
\* other exception whose message says "insufficient funds" in any letter case,
\* and "error" for every other exception.
C5_Classification ==
  (cmd = "classify" /\ pc # "start") =>
    /\ pc = "done"
    /\ LET r == received[1].result
           beh == AppliedBeh
       IN  /\ r \in TODResults
           /\ (beh.at = "none") => (r \in Verdicts)
           /\ (beh.at # "none") =>
                r = CASE beh.exc.cls = "ReplayDivergedException" -> "replay diverged"
                      [] beh.exc.cls = "InsufficientEtherReplayException" ->
                           "insufficient ether replay detected"
                      [] OTHER -> IF SaysInsufficientFunds(beh.exc.msg)
                                  THEN "insufficient ether replay error"
                                  ELSE "error"

\* A plain exception whose message says it in capitals.
C5_Witness ==
  /\ Applied
  /\ AppliedBeh.exc = [cls |-> "RuntimeError", msg |-> <<"err", "INSUFFICIENT", "FUNDS">>]
  /\ received[1].result = "insufficient ether replay error"

\* C6: over the same replay data, method "approximation" gives "TOD" exactly
\* when tx_b_comparison has differences and method "overall" exactly when
\* overall_comparison has; the other comparison has no influence.
C6_MethodSelectsScope ==
  (Applied /\ AppliedBeh.at = "none") =>
    LET r == received[1].result
        differs == IF inputs[1].tod_method = "approximation"
                   THEN AppliedBeh.b ELSE AppliedBeh.o
    IN  /\ (r = "TOD") <=> differs
        /\ (r = "not TOD") <=> ~differs

\* tx_b differs while the combined comparison does not, under "approximation".
C6_Witness ==
  /\ Applied
  /\ AppliedBeh.at = "none" /\ AppliedBeh.b /\ ~AppliedBeh.o
  /\ inputs[1].tod_method = "approximation"
  /\ received[1].result = "TOD"

\* ------------------------------------------------ properties of block_range_type
\* what each bound text says, by the numeral it is
BoundValue(text) ==
  CASE text = <<"1", "0", "0">> -> 100
    [] text = <<"2", "0", "0">> -> 200
    [] text = <<"3", "2">> -> 32
    [] text = <<"7">> -> 7
    [] text = <<"0", "x", "1", "0">> -> 16
    [] text = <<"0", "x", "2", "0">> -> 32
    [] text = <<"0", "x", "7">> -> 7

\* C16: block_range_type reads 'start-end' with each bound on its own decimal
\* or 0x-prefixed hexadecimal: every text of two bounds whose first does not
\* exceed the second gives the range of their two values, so '100-200' gives
\* {100,200}, '0x10-0x20' {16,32}, '0x10-32' {16,32}, and equal bounds pass.
C16_ParsesBothForms ==
  (cmd = "block_range" /\ pc # "start") =>
    \A a, b \in BoundTexts :
      (env = a \o <<"-">> \o b /\ BoundValue(a) <= BoundValue(b)) =>
        /\ pc = "done"
        /\ received[1] = BlockRange(BoundValue(a), BoundValue(b))

\* '0x10-32', hexadecimal then decimal, has given {16, 32}.
C16_Witness ==
  /\ cmd = "block_range" /\ pc = "done"
  /\ env = <<"0", "x", "1", "0", "-", "3", "2">>
  /\ received[1] = BlockRange(16, 32)

DecimalDigits == {"0", "1", "2", "3", "4", "5", "6", "7", "8", "9"}
HexDigits == DecimalDigits \cup {"a", "b", "c", "d", "e", "f"}
IsDecimal(t) == t # <<>> /\ \A i \in 1..Len(t) : t[i] \in DecimalDigits
IsHex(t) ==
  /\ Len(t) >= 3 /\ t[1] = "0" /\ t[2] = "x"
  /\ \A i \in 3..Len(t) : t[i] \in HexDigits
\* a non-negative bound: decimal or 0x-hexadecimal digits, a plus sign allowed
IsBound(t) ==
  LET u == IF t # <<>> /\ t[1] = "+" THEN Tail(t) ELSE t
  IN  IsDecimal(u) \/ IsHex(u)
Dashes(t) == Cardinality({i \in 1..Len(t) : t[i] = "-"})
WellFormed(t) ==
  /\ Dashes(t) = 1
  /\ \E k \in 1..Len(t) :
       /\ t[k] = "-"
       /\ IsBound(SubSeq(t, 1, k - 1))
       /\ IsBound(SubSeq(t, k + 1, Len(t)))

ReferencedTxs ==
  IF Exists(CandidatesCsv) THEN Range(flatten(load_tod_candidates(fs[CandidatesCsv]))) ELSE {}
OwningBlocks == {blockOf[tx] : tx \in ReferencedTxs}

PrefetchComplete ==
  /\ \A tx \in ReferencedTxs : requests[tx] >= 1
  /\ \A b \in OwningBlocks : requests[b] >= 1

\* C22: in the Check stage a worker has taken a task, is running or has
\* finished only in the parallel phase, and then the data of every transaction
\* any candidate pair refers to and the state changes of every block owning one
\* of them have been requested: the prefetch is complete before the first
\* worker starts, and nothing is requested while workers run.
C22_PrefetchBeforeWorkers ==
  (cmd = "check") =>
    /\ (running # {} \/ next > 1 \/ outq # <<>> \/ received # <<>>) =>
         /\ pc \in {"collect", "done"}
         /\ checker = Session
         /\ PrefetchComplete
    /\ (pc \in {"download", "fetch"}) =>
         (running = {} /\ next = 1 /\ outq = <<>> /\ received = <<>>)

\* two transactions in two blocks, a worker running
C22_Witness ==
  /\ cmd = "check" /\ pc = "collect"
  /\ running # {}
  /\ ReferencedTxs = Tx
  /\ OwningBlocks = Blocks

\* C23: whatever number of candidate pairs share a transaction or a block, the
\* prefetch asks the provider at most once for each transaction and at most
\* once for the state changes of each block, exactly once for each referenced
\* transaction and each owning block when it has completed, and for nothing
\* else.
C23_OncePerTransactionAndBlock ==
  (cmd = "check") =>
    /\ \A k \in Tx \cup Blocks : requests[k] <= 1
    /\ \A k \in Tx \cup Blocks : requests[k] = 1 => k \in ReferencedTxs \cup OwningBlocks
    /\ (pc \in {"open", "collect", "done"}) =>
         /\ \A tx \in ReferencedTxs : requests[tx] = 1
         /\ \A b \in OwningBlocks : requests[b] = 1

\* two pairs sharing both transactions, which lie in one block
C23_Witness ==
  /\ cmd = "check" /\ pc = "collect"
  /\ Len(load_tod_candidates(fs[CandidatesCsv])) = 2
  /\ ReferencedTxs = Tx
  /\ Cardinality(OwningBlocks) = 1
  /\ \A b \in OwningBlocks : requests[b] = 1

\* ------------------------------------------------ properties of the run command
StageEvents == SelectSeq(history, LAMBDA h : h.ev \in {"start", "finish"})

Pipeline ==
  <<Started("mine"), Finished("mine"), Started("check"), Finished("check"),
    Started("trace_analyze"), Finished("trace_analyze"),
    Started("stats"), Finished("stats")>>

HasStarted(stage) == Started(stage) \in Range(StageEvents)
HasFinished(stage) == Finished(stage) \in Range(StageEvents)

C19_PropertiesBeforeStats ==
  (cmd = "run" /\ HasStarted("stats")) =>
    /\ \E c, s, f, t \in 1..Len(StageEvents) :
         /\ c < s /\ s < f /\ f < t
         /\ StageEvents[c] = Finished("check")
         /\ StageEvents[s] = Started("properties")
         /\ StageEvents[f] = Finished("properties")
         /\ StageEvents[t] = Started("stats")
    /\ Exists(PropertiesCsv)

CreatedEvents == SelectSeq(history, IsCreated)

\* C20: in run mode at most one session is ever created, by run_command, and
\* it exists from the Check stage on; no stage or worker makes another.
C20_OneSession ==
  (cmd = "run") =>
    /\ Len(CreatedEvents) <= 1
    /\ \A k \in 1..Len(CreatedEvents) : CreatedEvents[k] = Created(1, "run_command")
    /\ HasStarted("check") => (Len(CreatedEvents) = 1 /\ checker = Session)

ReceivedPair(result) ==
  IF cmd = "run" THEN <<Split(result.id, "_")[1], Split(result.id, "_")[2]>>
  ELSE result.transaction_hashes

\* how many rows of the verdict checkpoint name the pair with result TOD
NumTodRows(pair) ==
  LET rows == DictReader(fs[CheckCsv])
  IN  Cardinality({i \in 1..Len(rows) : PairOf(rows[i]) = pair /\ rows[i].result = "TOD"})

NumInputs(pair) ==
  Cardinality({i \in 1..Len(inputs) : inputs[i].transaction_hashes = pair})

NumReceived(pair) ==
  Cardinality({i \in 1..Len(received) : ReceivedPair(received[i]) = pair})

ConsumerStarted ==
  \/ cmd = "properties" /\ pc \in {"collect", "done"}
  \/ cmd = "run" /\ pc \in {"collect", "stats", "done"}

ConsumerFinished ==
  \/ cmd = "properties" /\ pc = "done"
  \/ cmd = "run" /\ pc \in {"stats", "done"}

\* C24: the Properties stage and the trace/analyze stage of a run are handed
\* one item for each row of the verdict checkpoint whose result is TOD and no
\* other item, a pair without a TOD row is never processed, and when the stage
\* has finished each TOD row has been processed.
C24_ExactlyTodPairs ==
  ConsumerStarted =>
    /\ \A pair \in AllPairs :
         /\ NumInputs(pair) = NumTodRows(pair)
         /\ NumReceived(pair) <= NumTodRows(pair)
         /\ ConsumerFinished => NumReceived(pair) = NumTodRows(pair)
    /\ \A i \in running : NumTodRows(inputs[i].transaction_hashes) > 0

\* Properties: a checkpoint with a TOD row and a row of another result
C24_Witness ==
  /\ cmd = "properties" /\ pc = "done"
  /\ Len(DictReader(fs[CheckCsv])) = 2
  /\ Len(inputs) = 1 /\ Len(received) = 1
  /\ \E i \in 1..2 : /\ DictReader(fs[CheckCsv])[i].result # "TOD"
                     /\ PairOf(DictReader(fs[CheckCsv])[i]) # inputs[1].transaction_hashes

\* the same in a run
C24_WitnessRun ==
  /\ cmd = "run" /\ pc = "done"
  /\ Len(DictReader(fs[CheckCsv])) = 2
  /\ Len(inputs) = 1 /\ Len(received) = 1

\* ------------------------------------------------ properties of the Properties stage
PropertiesRows == IF Exists(PropertiesCsv) THEN DictReader(fs[PropertiesCsv]) ELSE <<>>
PropertiesLines == IF Exists(PropertiesJsonl) THEN fs[PropertiesJsonl] ELSE <<>>

NumPropertiesRows(pair) ==
  Cardinality({i \in 1..Len(PropertiesRows) : PairOf(PropertiesRows[i]) = pair})

\* some step of check_candidate_properties raises for the pair
SubCheckThrows(pair) == env[pair].failAt # 0

\* C25: in the Properties stage every received result has its line in the
\* details file, in the order of arrival; the results CSV holds a row for a
\* pair only if no sub-check threw for it, and then one row per line; the line
\* of a pair for which a sub-check threw has details null and a failure that
\* holds the traceback of that exception, the line of any other pair has its
\* details and failure null; the pairs after a failed one are processed: at
\* the end every input has its line.
C25_RowOnlyIfAllSucceeded ==
  (cmd = "properties" /\ pc \in {"collect", "done"}) =>
    /\ Len(PropertiesLines) = Len(received)
    /\ \A k \in 1..Len(received) :
         LET pair == received[k].transaction_hashes
             line == PropertiesLines[k]
         IN  /\ PairOf(line) = pair
             /\ IF SubCheckThrows(pair)
                THEN /\ line.details = Null
                     /\ line.failure # Null
                     /\ Contains(line.failure[1], <<env[pair].exc.cls, env[pair].exc.msg>>)
                ELSE /\ line.details # Null
                     /\ line.failure = Null
    /\ \A pair \in AllPairs :
         NumPropertiesRows(pair) =
           IF pair \in DOMAIN env /\ ~SubCheckThrows(pair) THEN NumReceived(pair) ELSE 0
    /\ (pc = "done") => Len(PropertiesLines) = Len(inputs)

\* two TOD pairs: the sub-checks of the first to arrive throw at the last
\* step, the second succeeds and has the only row
C25_Witness ==
  /\ cmd = "properties" /\ pc = "done"
  /\ Len(received) = 2
  /\ env[received[1].transaction_hashes].failAt = StepApproval
  /\ ~SubCheckThrows(received[2].transaction_hashes)
  /\ Len(PropertiesRows) = 1 /\ Len(PropertiesLines) = 2

\* ------------------------------------------------ properties of the dispatch
\* the items workers have taken so far
Dispatched == 1..(next - 1)

\* C26: in the parallel phase of every stage the items being processed are
\* never more than max_workers, they are items taken from the input list and
\* not yet finished, and every item taken is at exactly one place: with its
\* worker, finished and waiting for the collecting loop, or received; so no
\* item is processed twice, and at the end every item was taken once.
C26_OneWorkerPerItem ==
  /\ Cardinality(running) <= max_workers
  /\ running \subseteq Dispatched
  /\ Dispatched \subseteq 1..Len(inputs)
  /\ (pc = "collect") =>
       Cardinality(running) + Len(outq) + Len(received) = Cardinality(Dispatched)
  /\ (pc \in {"done", "stats"}) =>
       /\ running = {} /\ outq = <<>>
       /\ Dispatched = 1..Len(inputs)
       /\ Len(received) = Len(inputs)

\* as many items running as there are workers, and an item left waiting
C26_Witness ==
  /\ pc = "collect"
  /\ max_workers = 1
  /\ Cardinality(running) = max_workers
  /\ next <= Len(inputs)
  /\ Len(received) + Len(outq) = 0

\* ------------------------------------------------ properties of the check command
NumCandidates(pair) ==
  LET pairs == load_tod_candidates(fs[CandidatesCsv])
  IN  Cardinality({i \in 1..Len(pairs) : pairs[i] = pair})

NumCheckRows(pair) ==
  Cardinality({i \in 1..Len(CheckRows) : PairOf(CheckRows[i]) = pair})

\* C27: in the check command the Properties stage has started only after the
\* Check stage has returned without raising, and then the verdict CSV holds
\* the row of every candidate and the details file its line; the items of
\* Properties are the TOD rows of that complete file; while Check runs
\* Properties has not started, and when Check has raised the command is over:
\* Properties never starts and leaves no file.
C27_NoPartialCheckpoint ==
  /\ HasStarted("properties") =>
       /\ cmd = "properties"
       /\ raised = NoExc
       /\ Exists(CandidatesCsv) /\ Exists(CheckCsv) /\ Exists(CheckJsonl)
       /\ \A pair \in AllPairs : NumCheckRows(pair) = NumCandidates(pair)
       /\ Len(CheckLines) = Len(CheckRows)
       /\ (pc \in {"collect", "done"}) =>
            \A pair \in AllPairs : NumInputs(pair) = NumTodRows(pair)
  /\ (cmd = "check") =>
       /\ ~HasStarted("properties")
       /\ ~Exists(PropertiesCsv) /\ ~Exists(PropertiesJsonl)
       /\ (pc = "raised") => ~ENABLED NextCheckCommand

\* Two candidates, one of them TOD: Properties has run on the complete file.
C27_Witness ==
  /\ cmd = "properties" /\ pc = "done"
  /\ HasStarted("properties")
  /\ Len(CheckRows) = 2
  /\ Len(inputs) = 1 /\ Len(received) = 1

\* Check has raised during the prefetch; the command is over.
C27_WitnessAbort ==
  /\ cmd = "check" /\ pc = "raised"
  /\ raised = ProviderError

\* ------------------------------------------------ properties of the items' writes
\* the path item i writes: the trace directory or the result file of its pair
OutputPath(i) ==
  CASE cmd = "trace" -> inputs[i].traces_dir
    [] cmd = "analyze" -> ResultFile(bundle_id(inputs[i].traces_path))
    [] OTHER -> ResultFile(InputId(inputs[i]))

\* In the parallel phase a step changes no path but the one named after the
\* pair of the item that finishes in it.
OwnPathOnly ==
  [][(pc = "collect") =>
       \A q \in DOMAIN fs' :
         (q \notin DOMAIN fs \/ fs'[q] # fs[q]) =>
           \E i \in running \ running' : q = OutputPath(i)]_vars

\* C28: no two items that are running at the same time have the same path
\* to write.
C28_NoSharedWritePath ==
  \A i, j \in running : (i # j) => OutputPath(i) # OutputPath(j)

\* ------------------------------------------------ properties of the setup of Check
\* the contents an earlier invocation left at a path
Earlier(path) == IF path = CheckCsv THEN EarlierCheckCsv ELSE EarlierCheckJsonl

\* check() has raised before its parallel phase
SetupFailed ==
  /\ cmd = "check" /\ pc = "raised"
  /\ raised \in {FileNotFoundError, ProviderError}

\* C29: until the Check stage has finished its setup, and when the setup has
\* raised (candidates checkpoint missing, or a provider failure during the
\* prefetch), the results CSV and the details JSONL are as they were when the
\* stage was invoked: not created if they were not there, and holding what the
\* earlier invocation left if they were.
C29_SetupFailureLeavesCheckpoint ==
  (cmd = "check" /\ (SetupFailed \/ pc \in {"start", "download", "fetch", "open"})) =>
    IF second
    THEN /\ Exists(CheckCsv) /\ Exists(CheckJsonl)
         /\ DictReader(fs[CheckCsv]) = firstRows
         /\ Len(fs[CheckJsonl]) = Len(firstRows)
         /\ \A k \in 1..Len(firstRows) : PairOf(fs[CheckJsonl][k]) = PairOf(firstRows[k])
    ELSE \A path \in {CheckCsv, CheckJsonl} : Exists(path) => fs[path] = Earlier(path)

\* the provider fails during the prefetch, the earlier checkpoint is there
C29_Witness ==
  /\ SetupFailed /\ ~second
  /\ raised = ProviderError
  /\ Exists(CheckCsv) /\ fs[CheckCsv] = EarlierCheckCsv
  /\ Exists(CheckJsonl) /\ fs[CheckJsonl] = EarlierCheckJsonl

\* the candidates checkpoint is missing, the earlier checkpoint is there
C29_WitnessMissing ==
  /\ SetupFailed /\ ~second
  /\ raised = FileNotFoundError
  /\ Exists(CheckCsv) /\ fs[CheckCsv] = EarlierCheckCsv

\* the provider fails in the second invocation
C29_WitnessSecond ==
  /\ SetupFailed /\ second
  /\ Len(firstRows) = 2

\* ------------------------------------------------ properties of the per-item timing
\* the rows the collecting loop saved for single items
IsItemRow(row) ==
  IF cmd = "check" THEN Len(row.task_path) = 3 /\ row.task_path[1] = "check"
  ELSE Len(row.task_path) = 2 /\ row.task_path[1] = "properties"

ItemRows == SelectSeq(ledger, IsItemRow)

\* the StopWatch reading of the work function of a received result
WorkElapsed(result) ==
  LET pair == Split(ResultId(result), "_")
  IN  elapsed_ms(<<IF cmd = "check" THEN "check_candidate" ELSE "check_candidate_properties",
                   pair[1], pair[2]>>)

\* With a recorder that offers save_time_ms as the spec describes it, the
\* collecting loops of Check and Properties save one row per received result,
\* in the order of arrival, with the id of the pair as last segment of the
\* path and the work function's own elapsed time, failed items included.
PerItemTimingInStage ==
  (cmd \in {"check", "properties"} /\ pc \in {"collect", "done"}) =>
    /\ Len(ItemRows) = Len(received)
    /\ \A k \in 1..Len(received) :
         /\ ItemRows[k].task_path =
              (IF cmd = "check" THEN <<"check", "check">> ELSE <<"properties">>)
                \o <<ResultId(received[k])>>
         /\ ItemRows[k].elapsed_ms = WorkElapsed(received[k])

\* the calls by which the stages save the time of a single item
IsPerItemCall(call) == call.method = "save_time_ms"

\* a row of the recorder's ledger that carries the id and the time of the call
CarriesItem(row, call) ==
  /\ row.type \in {"step", "component"}
  /\ row.step = call.args[1][Len(call.args[1])]
  /\ row.elapsed_ms = call.args[2]

\* C30: whenever a stage forwards the id and the elapsed time of a completed
\* item to the recorder (path check/check/<pair-id>, elapsed time of the work
\* function), the recorder's ledger has got exactly one more row, and that row
\* carries the id and the time.
C30_PerItemTimingRecord ==
  [][\A k \in 1..Len(TimingCalls) :
       (IsPerItemCall(TimingCalls[k]) /\ TimingCall(TimingCalls[k])) =>
         /\ Len(ledger') = Len(ledger) + 1
         /\ CarriesItem(ledger'[Len(ledger')], TimingCalls[k])]_vars

\* ------------------------------------------------ termination of the Check stage
\* check() has returned: every result collected and written, both files
\* closed, the check/check scope recorded last.
CheckCompleted ==
  /\ cmd = "check" /\ pc = "done"
  /\ running = {} /\ outq = <<>>
  /\ Len(received) = Len(inputs)
  /\ Len(CheckRows) = Len(inputs)
  /\ Len(CheckLines) = Len(inputs)
  /\ ledger # <<>>
  /\ ledger[Len(ledger)] = [task_path |-> <<"check", "check">>,
                            elapsed_ms |-> elapsed_ms(<<"check", "check">>)]

\* C31: every work function that is started returning, a Check stage that
\* has come to its parallel phase finishes, whatever the length of the
\* candidate list (none, one or more) and whichever items fail: every result
\* is collected and written, both files are closed and the scope of the stage
\* is in the ledger; and from its start the stage finishes or raises at its
\* setup.
C31_CheckTerminates ==
  /\ (cmd = "check" /\ pc = "collect") ~> CheckCompleted
  /\ <>(pc \in {"done", "raised"})

\* two candidates, one of them failed, the stage finished
C31_Witness ==
  /\ CheckCompleted
  /\ Len(inputs) = 2
  /\ \E k \in 1..2 : received[k].result = "error"
  /\ \E k \in 1..2 : received[k].result = "TOD"

\* the empty candidate list
C31_WitnessEmpty ==
  /\ CheckCompleted
  /\ Exists(CandidatesCsv)
  /\ inputs = <<>>

\* ------------------------------------------- properties of the single writer
\* the collecting loop of Check or of Properties is running
ParallelPhase == cmd \in {"check", "properties"} /\ pc = "collect"

\* rows of the results CSV and lines of the details JSONL of the running stage
StageRows == IF cmd = "check" THEN CheckRows ELSE PropertiesRows
StageLines == IF cmd = "check" THEN CheckLines ELSE PropertiesLines

\* a pool thread takes a task or hands over the result of one
WorkerStep == next' # next \/ Len(outq') = Len(outq) + 1

\* the collecting thread handles the result at the head of the queue: one
\* timing row, at most one CSV row and one detail line, all of its pair
CollectsOne ==
  /\ outq # <<>> /\ ~Head(outq).raised
  /\ outq' = Tail(outq)
  /\ received' = Append(received, Head(outq).payload)
  /\ LET result == Head(outq).payload
         id == ResultId(result)
         pair == <<Split(id, "_")[1], Split(id, "_")[2]>>
     IN  /\ Len(ItemRows') = Len(ItemRows) + 1
         /\ ItemRows'[Len(ItemRows')].task_path[Len(ItemRows'[Len(ItemRows')].task_path)] = id
         /\ Len(ledger') = Len(ledger) + 1
         /\ Len(StageLines') = Len(StageLines) + 1
         /\ PairOf(StageLines'[Len(StageLines')]) = pair
         /\ \/ StageRows' = StageRows
            \/ /\ Len(StageRows') = Len(StageRows) + 1
               /\ PairOf(StageRows'[Len(StageRows')]) = pair
         /\ \A k \in 1..Len(StageLines) : StageLines'[k] = StageLines[k]
         /\ \A k \in 1..Len(StageRows) : StageRows'[k] = StageRows[k]

\* C32: during the parallel phase of Check and of Properties no step of a pool
\* thread changes the results CSV, the details JSONL or the timing ledger; a
\* step that changes one of them is a step of the collecting thread, which
\* either handles one result (its timing row, its row and its line, appended
\* together and all of the same pair) or leaves the loop and records the
\* scope of the stage without touching the two files.
C32_SingleWriter ==
  [][ParallelPhase =>
        /\ WorkerStep => UNCHANGED <<fs, ledger>>
        /\ (fs' # fs \/ ledger' # ledger) =>
             \/ pc' # "collect" /\ fs' = fs /\ Len(ledger') = Len(ledger) + 1
             \/ CollectsOne]_vars

\* A result of one pair has been written while the result of another pair,
\* finished by the second worker, waits in the queue.
C32_Witness ==
  /\ ParallelPhase /\ max_workers = 2
  /\ Len(received) = 1 /\ Len(outq) = 1 /\ ~outq[1].raised
  /\ Len(StageLines) = 1 /\ Len(ItemRows) = 1
  /\ ResultId(received[1]) # ResultId(outq[1].payload)

\* ------------------------------------------------- properties of the pair id
\* Strings the round trip of the id is examined on, "_" among their characters.
IdAlphabet == {"A", "B", "_"}
IdHashes == {<<>>} \cup {<<x>> : x \in IdAlphabet} \cup {<<x, y>> : x, y \in IdAlphabet}

\* tx_a, tx_b = id.split("_") unpacks exactly two pieces
Unpacks(id) == Len(Split(id, "_")) = 2

\* the pair the collector takes from the id of a result
SplitId(id) == <<Split(id, "_")[1], Split(id, "_")[2]>>

\* C33: the id tx_a + "_" + tx_b splits back into exactly (tx_a, tx_b) for
\* all hashes without "_" (a hash with "_" makes the unpacking of the split
\* raise, so the stage does not accept the candidate); in the Check stage the
\* id a worker hands over splits into the pair of the input it worked on, and
\* the row and the line written for a received result carry the pair of its
\* id in this order, (a, b) and (b, a) being different pairs.
C33_PairIdRoundTrip ==
  /\ [](/\ \A a, b \in IdHashes :
             IF "_" \notin Range(a) \cup Range(b)
             THEN Unpacks(MakeId(a, b)) /\ SplitId(MakeId(a, b)) = <<a, b>>
             ELSE ~Unpacks(MakeId(a, b))
        /\ \A p, q \in AllPairs : MakeId(p[1], p[2]) = MakeId(q[1], q[2]) => p = q
        /\ (cmd = "check" /\ pc \in {"collect", "done"}) =>
             /\ Len(CheckRows) = Len(received) /\ Len(CheckLines) = Len(received)
             /\ \A k \in 1..Len(received) :
                  /\ PairOf(CheckRows[k]) = SplitId(received[k].id)
                  /\ PairOf(CheckLines[k]) = SplitId(received[k].id)
                  /\ SplitId(received[k].id) \in Range(transaction_pairs))
  /\ [][(cmd = "check" /\ pc = "collect" /\ Len(outq') = Len(outq) + 1) =>
          \A i \in running \ running' :
            LET out == outq'[Len(outq')]
            IN  ~out.raised =>
                  /\ Unpacks(out.payload.id)
                  /\ SplitId(out.payload.id) = inputs[i].transaction_hashes]_vars

\* Check has completed for the candidates (a, b) and (b, a): each has its own
\* row, in the order of arrival.
C33_Witness ==
  /\ cmd = "check" /\ pc = "done" /\ Len(inputs) = 2
  /\ inputs[1].transaction_hashes = <<TxA, TxB>>
  /\ inputs[2].transaction_hashes = <<TxB, TxA>>
  /\ Len(CheckRows) = 2
  /\ PairOf(CheckRows[1]) = <<TxB, TxA>>
  /\ PairOf(CheckRows[2]) = <<TxA, TxB>>

\* ------------------------------------------------ properties of the session
\* the commands whose workers work with a Session
UsesSession == cmd \in {"check", "properties", "run"}

\* the session an event of create_checker or of the provider switch is about
SessionOf(h) == h.what[1]

\* the session was made by the item that switches its provider, right before
\* the switch, and no other create_checker or switch is about it
OwnSessionOnly(k) ==
  /\ k > 1
  /\ IsCreated(history[k - 1])
  /\ SessionOf(history[k - 1]) = SessionOf(history[k])
  /\ history[k - 1].what[2] = history[k].what[2]
  /\ \A j \in 1..Len(history) :
       (j \notin {k - 1, k} /\ (IsCreated(history[j]) \/ IsSwitched(history[j])))
         => SessionOf(history[j]) # SessionOf(history[k])

C34_WitnessCheck ==
  /\ cmd = "check" /\ pc = "collect" /\ checker = Session
  /\ Cardinality(running) = 2 /\ Len(received) = 0

\* ------------------------------------------- properties of trace_analyze
\* the results of trace_analyze that exist: handed over or received
TraceAnalyzeResults ==
  [k \in 1..Len(outq) |-> outq[k].payload] \o received

\* how many results carry the id of the pair
NumResults(pair) ==
  Cardinality({k \in 1..Len(TraceAnalyzeResults) :
                 TraceAnalyzeResults[k].id = MakeId(pair[1], pair[2])})

\* the files under results/
ResultFiles == {path \in DOMAIN fs : path \in {ResultFile(id) : id \in AllIds}}

NumWithDetails(k) ==
  Cardinality({j \in 1..k : PropertiesLines[j].details # Null})

\* C36: every line of the Properties details JSONL has exactly one of details
\* and failure non-null; the lines with details are, in order, the results
\* for which a CSV row was written (the n-th such line and the n-th row name
\* the same pair, and there are as many rows as such lines); failure is
\* non-null exactly for the results whose work function caught an exception.
C36_ExactlyOneOfDetailsAndFailure ==
  (cmd = "properties" /\ pc \in {"collect", "done"}) =>
    /\ Len(PropertiesLines) = Len(received)
    /\ Len(PropertiesRows) = NumWithDetails(Len(PropertiesLines))
    /\ \A k \in 1..Len(PropertiesLines) :
         LET line == PropertiesLines[k]
         IN  /\ (line.details # Null) # (line.failure # Null)
             /\ (line.failure # Null) <=> Truthy(received[k].error)
             /\ Truthy(received[k].error) <=>
                  env[received[k].transaction_hashes].failAt # 0
             /\ (line.details # Null) =>
                  /\ PairOf(PropertiesRows[NumWithDetails(k)]) = PairOf(line)
                  /\ PairOf(line.details[1]) = PairOf(line)

\* Two TOD pairs: the first to arrive has its row and its details, the work
\* function of the second caught an exception of its first step.
C36_Witness ==
  /\ cmd = "properties" /\ pc = "done"
  /\ Len(PropertiesLines) = 2 /\ Len(PropertiesRows) = 1
  /\ PropertiesLines[1].details # Null /\ PropertiesLines[1].failure = Null
  /\ PropertiesLines[2].details = Null /\ PropertiesLines[2].failure # Null
  /\ env[received[2].transaction_hashes].failAt = StepTrace

\* ------------------------------------------------ properties of Trace and Analyze
\* C3: in the Trace stage an exception of the work function for one pair is
\* turned into a failure outcome at the per-item boundary: no task hands an
\* exception to the pool, and the command is left by an exception only when
\* its own setup failed, never because of an item.
C3_TraceFailureIsolated ==
  cmd = "trace" =>
    /\ \A k \in 1..Len(outq) : ~outq[k].raised
    /\ (pc = "raised") => raised = FileNotFoundError

\* C4: in the Analyze stage a failure on one trace directory, a failure of
\* loading the bundle included, gives a result with error = True for that
\* directory and never aborts the batch: no task hands an exception to the
\* pool, the command is left by an exception only when its setup failed, and
\* at the end every directory has its result, with error = True exactly for
\* the directories whose processing failed.
C4_AnalyzeFailureIsolated ==
  cmd = "analyze" =>
    /\ \A k \in 1..Len(outq) : ~outq[k].raised
    /\ (pc = "raised") => raised = FileNotFoundError
    /\ (pc = "done") =>
         \A q \in get_trace_dirs(fs) :
           \E k \in 1..Len(received) :
             /\ received[k].id = bundle_id(q)
             /\ received[k].error = (env[q] # "ok")

====
